---- MODULE Spec2Model ----
(***************************************************************************)
(* A model of jonas-koeritz/actioncam: the control-channel frame codec     *)
(* (libipcamera Message.go), the camera control session                    *)
(* (libipcamera/Camera.go) and the RTP relay (libipcamera/RTPRelay.go).    *)
(*                                                                         *)
(* Bytes are integers 0..255, byte strings are sequences of bytes, and a   *)
(* Go string is the sequence of its bytes.                                 *)
(***************************************************************************)
EXTENDS Integers, Sequences, FiniteSets, TLC

VARIABLES
    \* ---- frame codec (SpecCodec) ----
    codecPc,        \* "input" | "encoded" | "decoded" | "credentials" | "login"
    codecHeader,    \* the Header handed to CreatePacket
    codecPayload,   \* the payload handed to CreatePacket
    codecUser,      \* the username handed to CreateLoginPacket
    codecPass,      \* the password handed to CreateLoginPacket
    codecPacket,    \* the bytes CreatePacket / CreateLoginPacket returned
    codecMsg,       \* what the receive loop's decoder made of codecPacket
    \* ---- file listing parser (SpecFileList) ----
    listPc,         \* "input" | "parsed" | "off"
    listInput,      \* the listing handed to parseFileList, by its segments
    listResult,     \* what parseFileList returned, or that it panicked
    \* ---- camera control session (Camera) ----
    conn,           \* c.connection: "nil" | "open" | "closed"
    connected,      \* c.connected
    disconnect,     \* c.disconnect
    isLoggedIn,     \* c.isLoggedIn
    messageHandlers,\* c.messageHandlers: message type -> sequence of handlers
    rl,             \* the handleConnection goroutine: its place and locals
    rx,             \* bytes the camera has written that the loop has not read
    rxEof,          \* the camera has closed its side of the connection
    tx,             \* packets written to the connection, in order
    calls,          \* the calls of Login and of the commands, one per caller
    crashed,        \* the process has died of a panic
    \* ---- bookkeeping for the properties (not program state) ----
    nreg,           \* handlers registered so far
    nframes,        \* frames the camera has sent so far
    ran,            \* handlers invoked for the message being dispatched
    handlerLog,     \* handler (by registration number) -> what became of it
    \* ---- RTP relay (RTPRelay.go) ----
    close,          \* the package variable close
    relays,         \* relay instance -> the RTPRelay, its sockets and its loop
    ndatagrams,     \* datagrams the camera has sent so far (bookkeeping)
    \* ---- RTSP server (package rtsp) ----
    server,         \* the Server and its ListenAndServe goroutine
    clients,        \* client -> its connection and handleClient goroutine
    nrequests       \* requests handled so far (bookkeeping)

codecVars == <<codecPc, codecHeader, codecPayload, codecUser, codecPass,
               codecPacket, codecMsg>>

listVars == <<listPc, listInput, listResult>>

camVars == <<conn, connected, disconnect, isLoggedIn, messageHandlers, rl,
             rx, rxEof, tx, calls, crashed, nreg, nframes, ran, handlerLog>>

relayVars == <<close, relays, ndatagrams>>

serverVars == <<server, clients, nrequests>>

vars == <<codecVars, listVars, camVars, relayVars, serverVars>>

\* what a step of the session leaves alone, and what a step of the codec
outsideCam == <<codecVars, listVars, relayVars, serverVars>>
outsideCodec == <<listVars, camVars, relayVars, serverVars>>
outsideRelay == <<codecVars, listVars, camVars, serverVars>>
outsideServer == <<codecVars, listVars, camVars, relayVars>>

\* the variables of a step of the server that kills the process
exceptCrashed == <<codecVars, listVars, relayVars, conn, connected, disconnect,
                   isLoggedIn, messageHandlers, rl, rx, rxEof, tx, calls, nreg,
                   nframes, ran, handlerLog>>

----------------------------------------------------------------------------
(* Message type codes, Camera.go:32-48                                     *)

LOGIN == 272                    \* 0x0110
LOGIN_ACCEPT == 273             \* 0x0111
ALIVE_REQUEST == 274            \* 0x0112
ALIVE_RESPONSE == 275           \* 0x0113
START_PREVIEW == 511            \* 0x01FF
REQUEST_FILE_LIST == 40997      \* 0xA025
FILE_LIST_CONTENT == 40998      \* 0xA026
REQUEST_FIRMWARE_INFO == 41012  \* 0xA034
FIRMWARE_INFORMATION == 41013   \* 0xA035
TAKE_PICTURE == 41016           \* 0xA038
PICTURE_SAVED == 41017          \* 0xA039
CONTROL_RECORDING == 41018      \* 0xA03A
RECORD_COMMAND_ACCEPT == 41019  \* 0xA03B
LOGIN_REJECT == 4660            \* 0x1234, "TODO: RE error code"

ControlMagic == 43981           \* 0xABCD
LoginPayloadLen == 128
LoginFieldOffset == 64
LengthModulus == 65536          \* Header.Length is a uint16

----------------------------------------------------------------------------
(* Byte-string helpers                                                     *)

Min(a, b) == IF a < b THEN a ELSE b

\* make([]byte, n): n zero bytes
ZeroBytes(n) == [i \in 1..n |-> 0]

\* n copies of the byte b
Repeat(b, n) == [i \in 1..n |-> b]

\* Go's copy(dst[off:], src), off zero-based: copies min(len(dst)-off, len(src))
\* bytes and leaves the rest of dst as it was
CopyAt(dst, off, src) ==
    LET n == Min(Len(dst) - off, Len(src))
    IN  [i \in 1..Len(dst) |->
            IF i > off /\ i <= off + n THEN src[i - off] ELSE dst[i]]

\* bitio Writer.WriteBits(v, nbits) on a byte-aligned writer, nbits a multiple
\* of 8: the lowest nbits bits of v, most significant byte first
RECURSIVE WriteBits(_, _)
WriteBits(v, nbits) ==
    IF nbits = 0 THEN <<>>
    ELSE WriteBits(v \div 256, nbits - 8) \o <<v % 256>>

\* encoding/binary BigEndian: the unsigned integer held by a byte string
RECURSIVE BigEndian(_)
BigEndian(bs) ==
    IF Len(bs) = 0 THEN 0
    ELSE BigEndian(SubSeq(bs, 1, Len(bs) - 1)) * 256 + bs[Len(bs)]

----------------------------------------------------------------------------
(* Frame codec                                                             *)

\* The mutant of CreatePacket that keeps the caller's Length field
CreatePacketKeepLength(header, payload) ==
    WriteBits(header.Magic, 16) \o WriteBits(header.Length, 16)
        \o WriteBits(header.MessageType, 32) \o payload

CreatePacket(header, payload) ==
    LET h == [header EXCEPT !.Length = Len(payload) % LengthModulus]
    IN  WriteBits(h.Magic, 16) \o WriteBits(h.Length, 16)
            \o WriteBits(h.MessageType, 32) \o payload

CreateCommandHeader(command) ==
    [Magic |-> ControlMagic, Length |-> 0, MessageType |-> command]

CreateCommandPacket(command) ==
    CreatePacket(CreateCommandHeader(command), <<>>)

\* The 128-byte payload CreateLoginPacket builds
LoginPayload(username, password) ==
    CopyAt(CopyAt(ZeroBytes(LoginPayloadLen), 0, username),
           LoginFieldOffset, password)

CreateLoginPacket(username, password) ==
    CreatePacket(CreateCommandHeader(LOGIN), LoginPayload(username, password))

NoHeader == [Magic |-> 0, Length |-> 0, MessageType |-> 0]

\* The mutant of ReadMessage that takes the header fields as little-endian
ReadMessageLittleEndian(stream) ==
    LET Rev(bs) == [i \in 1..Len(bs) |-> bs[Len(bs) + 1 - i]]
        header == [Magic |-> BigEndian(SubSeq(stream, 1, 2)),
                   Length |-> BigEndian(Rev(SubSeq(stream, 3, 4))),
                   MessageType |-> BigEndian(SubSeq(stream, 5, 8))]
        body == SubSeq(stream, 9, Len(stream))
    IN  IF Len(stream) < 8 \/ header.Magic # ControlMagic
        THEN [status |-> "magic", header |-> header, payload |-> <<>>, rest |-> body]
        ELSE IF header.Length > 0 /\ Len(body) < header.Length
        THEN [status |-> "short", header |-> header, payload |-> <<>>, rest |-> <<>>]
        ELSE [status |-> "ok", header |-> header,
              payload |-> SubSeq(body, 1, header.Length),
              rest |-> SubSeq(body, header.Length + 1, Len(body))]

\* The receive loop's decoder on the bytes `stream` of a connection on which
\* nothing more will arrive: binary.Read of the 8 header bytes, the magic
\* check, io.ReadFull of the payload.  status is "ok", or why the loop breaks.
ReadMessage(stream) ==
    IF Len(stream) < 8
    THEN [status |-> "eof", header |-> NoHeader, payload |-> <<>>, rest |-> <<>>]
    ELSE LET header == [Magic |-> BigEndian(SubSeq(stream, 1, 2)),
                        Length |-> BigEndian(SubSeq(stream, 3, 4)),
                        MessageType |-> BigEndian(SubSeq(stream, 5, 8))]
             body == SubSeq(stream, 9, Len(stream))
         IN  IF header.Magic # ControlMagic
             THEN [status |-> "magic", header |-> header, payload |-> <<>>,
                   rest |-> body]
             ELSE IF header.Length > 0 /\ Len(body) < header.Length
             THEN [status |-> "short", header |-> header, payload |-> <<>>,
                   rest |-> <<>>]
             ELSE [status |-> "ok", header |-> header,
                   payload |-> SubSeq(body, 1, header.Length),
                   rest |-> SubSeq(body, header.Length + 1, Len(body))]

----------------------------------------------------------------------------
(* Camera control session: data                                            *)

MaxCalls == 2       \* calls of Login and of the commands in one behaviour
MaxFrames == 2      \* frames the camera sends in one behaviour
MaxDispatches == 3  \* frames the camera sends in one behaviour of SpecHandlers
MaxHandlers == 3    \* handlers registered through Handle / HandleFirst

RemoveHandler == TRUE
KeepHandler == FALSE

\* time.After durations, in seconds
LoginTimeout == 5
CommandTimeout == 5
FileListTimeout == 10

Operations == {"Login", "TakePicture", "StartRecording", "StopRecording",
               "GetFileList", "GetFirmwareInfo", "StartPreviewStream"}

\* the operations that start with `if !c.isLoggedIn { return error }`
ChecksLogin(op) ==
    op \in {"GetFirmwareInfo", "TakePicture", "StartPreviewStream",
            "StartRecording", "StopRecording"}

\* the operations that register a handler and wait for it in a select
Awaits(op) == op # "StartPreviewStream"

\* the message type the operation's handler is registered for
ResponseType(op) ==
    CASE op = "Login" -> LOGIN_ACCEPT
      [] op = "TakePicture" -> PICTURE_SAVED
      [] op = "StartRecording" -> RECORD_COMMAND_ACCEPT
      [] op = "StopRecording" -> RECORD_COMMAND_ACCEPT
      [] op = "GetFileList" -> FILE_LIST_CONTENT
      [] op = "GetFirmwareInfo" -> FIRMWARE_INFORMATION

\* the mutant of TimeoutOf that gives the file list the commands' five seconds
TimeoutOfAllFive(op) == CommandTimeout

\* the duration handed to time.After in the operation's select
TimeoutOf(op) ==
    CASE op = "Login" -> LoginTimeout
      [] op = "GetFileList" -> FileListTimeout
      [] OTHER -> CommandTimeout

\* capacity of the channel the operation makes: make(chan bool, 0) in Login,
\* make(chan ..., 1) in the commands
ChanCap(op) == IF op = "Login" THEN 0 ELSE 1

Username == <<97, 100, 109, 105, 110>>      \* "admin"
Password12345 == <<49, 50, 51, 52, 53>>     \* "12345"

LoginPacket == CreateLoginPacket(Username, Password12345)
\* the packet the operation hands to SendPacket
RequestPacket(op) ==
    CASE op = "Login" -> LoginPacket
      [] op = "TakePicture" -> CreateCommandPacket(TAKE_PICTURE)
      [] op = "StartRecording" ->
            CreatePacket(CreateCommandHeader(CONTROL_RECORDING), <<1, 0, 0, 0>>)
      [] op = "StopRecording" ->
            CreatePacket(CreateCommandHeader(CONTROL_RECORDING), <<0, 0, 0, 0>>)
      [] op = "GetFileList" ->
            CreatePacket(CreateCommandHeader(REQUEST_FILE_LIST), <<1, 0, 0, 0>>)
      [] op = "GetFirmwareInfo" -> CreateCommandPacket(REQUEST_FIRMWARE_INFO)
      [] op = "StartPreviewStream" -> CreateCommandPacket(START_PREVIEW)

\* x + 1 in uint32, x given by its four bytes, least significant first
RECURSIVE AddOne32(_)
AddOne32(bs) ==
    IF Len(bs) = 0 THEN <<>>
    ELSE IF bs[1] < 255 THEN <<bs[1] + 1>> \o Tail(bs)
    ELSE <<0>> \o AddOne32(Tail(bs))

\* a >= b for two uint32 given by their bytes, least significant first
GreaterEq32(a, b) ==
    \/ a = b
    \/ \E i \in 1..4 :
          /\ a[i] > b[i]
          /\ \A j \in (i + 1)..4 : a[j] = b[j]

\* binary.LittleEndian.Uint32
RECURSIVE LittleEndian(_)
LittleEndian(bs) ==
    IF Len(bs) = 0 THEN 0
    ELSE bs[1] + 256 * LittleEndian(SubSeq(bs, 2, Len(bs)))

\* strings.Split(s, sep) for a separator of one byte
RECURSIVE Split(_, _)
Split(s, sep) ==
    IF \A i \in 1..Len(s) : s[i] # sep
    THEN <<s>>
    ELSE LET i == CHOOSE k \in 1..Len(s) :
                      s[k] = sep /\ \A j \in 1..(k - 1) : s[j] # sep
         IN  <<SubSeq(s, 1, i - 1)>> \o Split(SubSeq(s, i + 1, Len(s)), sep)

\* A uint64 is written as its decimal numeral: the sequence of its digits
\* (0..9), most significant first, without leading zeros; <<0>> is zero.
MaxUint64 == <<1, 8, 4, 4, 6, 7, 4, 4, 0, 7, 3, 7, 0, 9, 5, 5, 1, 6, 1, 5>>

\* numeral a is greater than numeral b
NumeralGreater(a, b) ==
    \/ Len(a) > Len(b)
    \/ /\ Len(a) = Len(b)
       /\ \E i \in 1..Len(a) :
             /\ a[i] > b[i]
             /\ \A j \in 1..(i - 1) : a[j] = b[j]

\* the digits without their leading zeros
RECURSIVE Normalize(_)
Normalize(digits) ==
    IF Len(digits) > 1 /\ digits[1] = 0 THEN Normalize(Tail(digits)) ELSE digits

\* strconv.ParseUint(s, 10, 64): an error for the empty string, for a byte
\* that is not a decimal digit (a sign included) and for a value above
\* 2^64 - 1; otherwise the value
ParseUint(s) ==
    IF Len(s) = 0 \/ \E i \in 1..Len(s) : s[i] \notin 48..57
    THEN [err |-> TRUE, value |-> <<0>>]
    ELSE LET n == Normalize([i \in 1..Len(s) |-> s[i] - 48])
         IN  IF NumeralGreater(n, MaxUint64)
             THEN [err |-> TRUE, value |-> MaxUint64]
             ELSE [err |-> FALSE, value |-> n]

\* the zero value of StoredFile
ZeroFile == [Path |-> <<>>, Size |-> <<0>>]

\* the mutant of ParsedFile that takes a size of zero for a size
ParsedFileAnySize(file) ==
    LET parts == Split(file, 58)
    IN  IF Len(parts) # 2 THEN ZeroFile
        ELSE LET size == ParseUint(parts[2])
             IN  IF ~size.err /\ Len(parts[1]) > 0
                 THEN [Path |-> parts[1], Size |-> size.value]
                 ELSE ZeroFile

\* the StoredFile the loop body of parseFileList assigns for a piece of the
\* listing, ZeroFile where it assigns nothing
ParsedFile(file) ==
    LET parts == Split(file, 58)
    IN  IF Len(parts) # 2 THEN ZeroFile
        ELSE LET size == ParseUint(parts[2])
             IN  IF ~size.err /\ size.value # <<0>> /\ Len(parts[1]) > 0
                 THEN [Path |-> parts[1], Size |-> size.value]
                 ELSE ZeroFile

\* parseFileList: the pieces between ';', a slice one shorter than their
\* number, and an assignment for every piece that parses.  An assignment for
\* the last piece is out of range.
parseFileList(input) ==
    LET files == Split(input, 59)
    IN  IF ParsedFile(files[Len(files)]) # ZeroFile
        THEN [panic |-> TRUE, stored |-> <<>>]
        ELSE [panic |-> FALSE,
              stored |-> [i \in 1..(Len(files) - 1) |-> ParsedFile(files[i])]]

\* the message types the handler table is modelled for; a type outside has
\* no handler
HandledTypes == {LOGIN_ACCEPT, ALIVE_REQUEST, PICTURE_SAVED,
                 RECORD_COMMAND_ACCEPT, FIRMWARE_INFORMATION, FILE_LIST_CONTENT}

\* A registered MessageHandler.  kind names the function: "alive" is
\* aliveRequestHandler, "login", "picture", "record", "firmware", "filelist"
\* are the closures Login and the commands register (call: the call whose
\* channel the closure holds), "user" is a handler of the library's user, who
\* chooses what it returns (remove, err).  seq and first record how it was
\* registered: the registration number, and whether by HandleFirst.
Handler(kind, call, remove, err, seq, first) ==
    [kind |-> kind, call |-> call, remove |-> remove, err |-> err,
     seq |-> seq, first |-> first]

HandlerKind(op) ==
    CASE op = "Login" -> "login"
      [] op = "TakePicture" -> "picture"
      [] op = "StartRecording" -> "record"
      [] op = "StopRecording" -> "record"
      [] op = "GetFileList" -> "filelist"
      [] op = "GetFirmwareInfo" -> "firmware"

\* the mutant of HandlersFor that does not go by the message type alone: a
\* frame of another type goes to the handlers for FIRMWARE_INFORMATION too
HandlersForFirmwareToo(t) ==
    IF t \in HandledTypes \ {FIRMWARE_INFORMATION}
    THEN messageHandlers[t] \o messageHandlers[FIRMWARE_INFORMATION]
    ELSE IF t = FIRMWARE_INFORMATION THEN messageHandlers[t]
    ELSE <<>>

\* c.messageHandlers[header.MessageType], lines 167 and 174
HandlersFor(t) == IF t \in HandledTypes THEN messageHandlers[t] ELSE <<>>

\* the mutant of addHandler that appends where it is to prepend and prepends
\* where it is to append
addHandlerSwapped(table, messageType, handleFunc, prepend) ==
    [table EXCEPT ![messageType] =
        IF prepend THEN Append(@, handleFunc) ELSE <<handleFunc>> \o @]

addHandler(table, messageType, handleFunc, prepend) ==
    [table EXCEPT ![messageType] =
        IF prepend THEN <<handleFunc>> \o @ ELSE Append(@, handleFunc)]

\* what loginResultHandler returns as its error for a message type
loginResultError(messageType) == messageType = LOGIN_REJECT

\* what loginResultHandler makes of c.isLoggedIn
loginResultLoggedIn(messageType, was) ==
    IF messageType = LOGIN_ACCEPT THEN TRUE ELSE was

\* A value sent on a result channel: the bool of a chan bool, the bytes of a
\* chan string or the files of a chan []StoredFile, the other fields left at
\* their zero values
NoValue == [bool |-> FALSE, bytes |-> <<>>, files |-> <<>>]
BoolValue(b) == [NoValue EXCEPT !.bool = b]
BytesValue(payload) == [NoValue EXCEPT !.bytes = payload]
FilesValue(stored) == [NoValue EXCEPT !.files = stored]

IdleCall ==
    [op |-> "none", pc |-> "idle", elapsed |-> 0, res |-> "none", ch |-> <<>>,
     data |-> <<>>, value |-> NoValue, answered |-> FALSE, rejected |-> FALSE, wasLoggedIn |-> FALSE, registered |-> FALSE,
     sent |-> FALSE, retry |-> FALSE]

IdleLoop(pc) ==
    [pc |-> pc, msg |-> [header |-> NoHeader, payload |-> <<>>],
     hs |-> <<>>, i |-> 0, remaining |-> <<>>]

\* parseFileList is not being called
ListIdle ==
    /\ listPc = "off"
    /\ listInput = <<>>
    /\ listResult = <<>>

\* the state CreateCamera leaves
CamInit ==
    /\ conn = "nil"
    /\ connected = FALSE
    /\ disconnect = FALSE
    /\ isLoggedIn = FALSE
    /\ messageHandlers = [t \in HandledTypes |-> <<>>]
    /\ rl = IdleLoop("off")
    /\ rx = <<>>
    /\ rxEof = FALSE
    /\ tx = <<>>
    /\ calls = [c \in 1..MaxCalls |-> IdleCall]
    /\ crashed = FALSE
    /\ nreg = 0
    /\ nframes = 0
    /\ ran = <<>>
    /\ handlerLog = [n \in {} |-> 0]

----------------------------------------------------------------------------
(* Camera control session: operations                                      *)

\* A handler has been registered for messageType under the next
\* registration number.  Its log entry counts the messages of its type read
\* since (offered), keeps their payloads (seen) and counts the times it was
\* invoked; racy says that it was
\* registered while the loop was dispatching a message of its type, cut that
\* a handler invoked before it for the same message returned an error.
Registered(messageType, h) ==
    /\ nreg' = nreg + 1
    /\ handlerLog' = handlerLog @@
          (h.seq :> [h |-> h, type |-> messageType, offered |-> 0,
                     seen |-> <<>>, invoked |-> 0,
                     racy |-> /\ rl.pc \in {"run", "sending", "assign"}
                              /\ rl.msg.header.MessageType = messageType,
                     cut |-> FALSE])

\* Connect, the dial succeeding: the keep-alive handler goes first in its
\* list and the receive loop starts.  c.connected is not assigned.
Connect ==
    /\ ~crashed
    /\ UNCHANGED outsideCam
    /\ conn = "nil"
    /\ rl.pc = "off"
    /\ conn' = "open"
    /\ messageHandlers' =
          addHandler(messageHandlers, ALIVE_REQUEST,
                     Handler("alive", 0, KeepHandler, FALSE, nreg + 1, TRUE), TRUE)
    /\ Registered(ALIVE_REQUEST,
                  Handler("alive", 0, KeepHandler, FALSE, nreg + 1, TRUE))
    /\ rl' = IdleLoop("read")
    /\ UNCHANGED <<connected, disconnect, isLoggedIn, rx, rxEof, tx, calls,
                   crashed, nframes, ran>>

\* Connect, the dial failing (lines 84-87): the error is logged and Connect
\* returns before anything is assigned, so the session stays as CreateCamera
\* left it, with the nil connection and no receive loop
ConnectFails ==
    /\ ~crashed
    /\ conn = "nil"
    /\ rl.pc = "off"
    /\ UNCHANGED vars

\* Disconnect: the two flags are set and the connection is closed.  On a
\* session that has no connection c.connection is the nil interface, and the
\* call of Close on it is a nil dereference.
Disconnect ==
    /\ ~crashed
    /\ UNCHANGED outsideCam
    /\ disconnect' = TRUE
    /\ connected' = FALSE
    /\ CASE conn = "nil" ->
              /\ crashed' = TRUE
              /\ UNCHANGED conn
         [] OTHER ->
              /\ conn' = "closed"
              /\ UNCHANGED crashed
    /\ UNCHANGED <<isLoggedIn, messageHandlers, rl, rx, rxEof, tx, calls,
                   nreg, nframes, ran, handlerLog>>

\* c.IsConnected()
IsConnected == connected

\* Handle / HandleFirst called by the library's user with a handler of its own
UserHandle(messageType, remove, err, first) ==
    /\ ~crashed
    /\ UNCHANGED outsideCam
    /\ nreg < MaxHandlers
    /\ messageHandlers' =
          addHandler(messageHandlers, messageType,
                     Handler("user", 0, remove, err, nreg + 1, first), first)
    /\ Registered(messageType, Handler("user", 0, remove, err, nreg + 1, first))
    /\ UNCHANGED <<conn, connected, disconnect, isLoggedIn, rl, rx, rxEof, tx,
                   calls, crashed, nframes, ran>>

\* the mutant of AfterHandler that keeps every handler, whatever it returned
AfterHandlerKeepAll(loop, h, remove, err) ==
    IF err \/ loop.i = Len(loop.hs)
    THEN [loop EXCEPT !.pc = "assign", !.remaining = Append(@, h)]
    ELSE [loop EXCEPT !.pc = "run", !.i = @ + 1, !.remaining = Append(@, h)]

\* the receive loop after handler h returned (remove, err): lines 176-183
AfterHandler(loop, h, remove, err) ==
    LET rem == IF remove = KeepHandler THEN Append(loop.remaining, h)
               ELSE loop.remaining
    IN  IF err \/ loop.i = Len(loop.hs)
        THEN [loop EXCEPT !.pc = "assign", !.remaining = rem]
        ELSE [loop EXCEPT !.pc = "run", !.i = @ + 1, !.remaining = rem]

\* the value a handler blocked in a channel send is sending: only the
\* unbuffered channel of Login makes its sender wait, and it carries true
SendingValue == BoolValue(TRUE)

\* the call a handler blocked in a channel send is sending to, 0 if none
SendingTo == IF rl.pc = "sending" THEN rl.hs[rl.i].call ELSE 0

\* The first steps of an operation, up to and including c.Handle(...):
\* the login check where the operation has one; StartPreviewStream, which
\* registers nothing, sends its packet and returns.
Invoke(c, op) ==
    /\ ~crashed
    /\ UNCHANGED outsideCam
    /\ calls[c].pc = "idle"
    /\ IF c = 1 THEN TRUE ELSE calls[c - 1].pc # "idle"
    /\ LET started == [calls[c] EXCEPT
                          !.op = op, !.wasLoggedIn = isLoggedIn,
                          !.retry = \E d \in 1..MaxCalls :
                                       /\ calls[d].op = "Login"
                                       /\ calls[d].res = "Timeout"]
       IN  IF ChecksLogin(op) /\ ~isLoggedIn
           THEN /\ calls' = [calls EXCEPT ![c] =
                       [started EXCEPT !.pc = "done", !.res = "NotLoggedIn"]]
                /\ UNCHANGED <<messageHandlers, tx, crashed, nreg, handlerLog>>
           ELSE IF ~Awaits(op)
           THEN /\ UNCHANGED <<messageHandlers, nreg, handlerLog>>
                /\ CASE conn = "nil" ->
                          /\ crashed' = TRUE
                          /\ calls' = [calls EXCEPT ![c] = [started EXCEPT !.pc = "sending"]]
                          /\ UNCHANGED tx
                     [] conn = "closed" ->
                          /\ calls' = [calls EXCEPT ![c] =
                                [started EXCEPT !.pc = "done", !.res = "SendError"]]
                          /\ UNCHANGED <<tx, crashed>>
                     [] conn = "open" ->
                          /\ tx' = Append(tx, RequestPacket(op))
                          /\ calls' = [calls EXCEPT ![c] =
                                [started EXCEPT !.pc = "done", !.res = "OK", !.sent = TRUE]]
                          /\ UNCHANGED crashed
           ELSE /\ messageHandlers' =
                      addHandler(messageHandlers, ResponseType(op),
                                 Handler(HandlerKind(op), c, RemoveHandler, FALSE,
                                         nreg + 1, FALSE), FALSE)
                /\ Registered(ResponseType(op),
                              Handler(HandlerKind(op), c, RemoveHandler, FALSE,
                                      nreg + 1, FALSE))
                /\ calls' = [calls EXCEPT ![c] =
                      [started EXCEPT !.pc = "registered", !.registered = TRUE]]
                /\ UNCHANGED <<tx, crashed>>
    /\ UNCHANGED <<conn, connected, disconnect, isLoggedIn, rl, rx, rxEof,
                   nframes, ran>>

\* The call enters its select.  A value already in its channel, or a handler
\* blocked sending to it, is received at once; otherwise the caller parks
\* and the timer starts.  A parked caller is woken by whichever comes first,
\* a send on its channel or its timer.
EnterSelect(c, call) ==
    IF Len(call.ch) > 0
    THEN /\ calls' = [calls EXCEPT ![c] =
                [call EXCEPT !.pc = "done", !.res = "OK", !.ch = <<>>,
                             !.value = Head(call.ch)]]
         /\ UNCHANGED rl
    ELSE IF SendingTo = c
    THEN /\ calls' = [calls EXCEPT ![c] =
                [call EXCEPT !.pc = "done", !.res = "OK", !.value = SendingValue]]
         /\ rl' = AfterHandler(rl, rl.hs[rl.i], RemoveHandler, FALSE)
    ELSE /\ calls' = [calls EXCEPT ![c] = [call EXCEPT !.pc = "waiting", !.elapsed = 0]]
         /\ UNCHANGED rl

\* c.SendPacket(...) of an operation that has registered its handler, and
\* what follows: the error return, or the select.  Login does not look at
\* the error.  Writing to the nil connection of a session that never
\* connected is a nil dereference.
Send(c) ==
    /\ ~crashed
    /\ UNCHANGED outsideCam
    /\ calls[c].pc = "registered"
    /\ CASE conn = "nil" ->
              /\ crashed' = TRUE
              /\ UNCHANGED <<tx, calls, rl>>
         [] conn = "closed" ->
              /\ UNCHANGED <<tx, crashed>>
              /\ IF calls[c].op = "Login"
                 THEN EnterSelect(c, calls[c])
                 ELSE /\ calls' = [calls EXCEPT ![c].pc = "done", ![c].res = "SendError"]
                      /\ UNCHANGED rl
         [] conn = "open" ->
              /\ tx' = Append(tx, RequestPacket(calls[c].op))
              /\ EnterSelect(c, [calls[c] EXCEPT !.sent = TRUE])
              /\ UNCHANGED crashed
    /\ UNCHANGED <<conn, connected, disconnect, isLoggedIn, messageHandlers,
                   rx, rxEof, nreg, nframes, ran, handlerLog>>

\* Time is counted in steps of the largest duration that divides every
\* time.After duration of the session (5 s): the timers fire only at multiples
\* of it after they were started, and what happens between two such instants
\* is ordered, not timed.
RECURSIVE GCD(_, _)
GCD(a, b) == IF b = 0 THEN a ELSE GCD(b, a % b)

TimeStep == GCD(GCD(LoginTimeout, CommandTimeout), FileListTimeout)

\* the mutant of Expired in which every timer has fired from the start
ExpiredAtOnce(op, elapsed) == elapsed >= 0

\* time.After(d) has fired once d seconds have passed since the select began
Expired(op, elapsed) == elapsed >= TimeoutOf(op)

\* Time passes, by one step.  A timer that has fired wakes its caller before
\* more time passes.
Tick ==
    /\ ~crashed
    /\ UNCHANGED outsideCam
    /\ \E c \in 1..MaxCalls : calls[c].pc = "waiting"
    /\ \A c \in 1..MaxCalls :
          calls[c].pc = "waiting" => ~Expired(calls[c].op, calls[c].elapsed)
    /\ calls' = [c \in 1..MaxCalls |->
          IF calls[c].pc = "waiting"
          THEN [calls[c] EXCEPT !.elapsed = @ + TimeStep]
          ELSE calls[c]]
    /\ UNCHANGED <<conn, connected, disconnect, isLoggedIn, messageHandlers, rl,
                   rx, rxEof, tx, crashed, nreg, nframes, ran, handlerLog>>

\* the select of a parked caller takes its time.After branch: the operation
\* returns its timeout error
Timeout(c) ==
    /\ ~crashed
    /\ UNCHANGED outsideCam
    /\ calls[c].pc = "waiting"
    /\ Expired(calls[c].op, calls[c].elapsed)
    /\ calls' = [calls EXCEPT ![c].pc = "done", ![c].res = "Timeout"]
    /\ UNCHANGED <<conn, connected, disconnect, isLoggedIn, messageHandlers, rl,
                   rx, rxEof, tx, crashed, nreg, nframes, ran, handlerLog>>

\* The camera writes one frame.  The loop is the connection's only reader,
\* so a frame is let in once the one before it has been read.
PeerSend(messageType, payload) ==
    /\ ~crashed
    /\ UNCHANGED outsideCam
    /\ conn = "open"
    /\ ~rxEof
    /\ rx = <<>>
    /\ rx' = CreatePacket(CreateCommandHeader(messageType), payload)
    /\ nframes' = nframes + 1
    /\ UNCHANGED <<conn, connected, disconnect, isLoggedIn, messageHandlers, rl,
                   rxEof, tx, calls, crashed, nreg, ran, handlerLog>>

\* The camera writes bytes that need not be one well-formed frame; they
\* follow what it has written before.
PeerWrite(bytes) ==
    /\ ~crashed
    /\ UNCHANGED outsideCam
    /\ conn = "open"
    /\ ~rxEof
    /\ rx' = rx \o bytes
    /\ nframes' = nframes + 1
    /\ UNCHANGED <<conn, connected, disconnect, isLoggedIn, messageHandlers, rl,
                   rxEof, tx, calls, crashed, nreg, ran, handlerLog>>

\* the camera closes the connection: what it has written can still be read,
\* then the reads fail
PeerClose ==
    /\ ~crashed
    /\ UNCHANGED outsideCam
    /\ conn = "open"
    /\ ~rxEof
    /\ rxEof' = TRUE
    /\ UNCHANGED <<conn, connected, disconnect, isLoggedIn, messageHandlers, rl,
                   rx, tx, calls, crashed, nreg, nframes, ran, handlerLog>>

\* the mutant of BreaksLoop that lets a wrong magic pass
BreaksLoopOnReadError(status) == status \in {"eof", "short"}

\* the decoder's results on which the loop breaks: a read error on the
\* header, a wrong magic, a read error on the payload
BreaksLoop(status) == status \in {"eof", "magic", "short"}

\* binary.Read and io.ReadFull return: the bytes asked for are there, or the
\* stream has ended
FrameReady ==
    \/ rxEof
    \/ /\ Len(rx) >= 8
       /\ \/ BigEndian(SubSeq(rx, 1, 2)) # ControlMagic
          \/ Len(rx) - 8 >= BigEndian(SubSeq(rx, 3, 4))

\* handleConnection, lines 134-170 and 173-174: one message is read; a
\* read error or a wrong magic ends the loop; with no handler for its type
\* the message is logged; otherwise the handlers for its type are taken for
\* the range loop.
RLRead ==
    /\ ~crashed
    /\ UNCHANGED outsideCam
    /\ rl.pc = "read"
    /\ conn = "open"
    /\ FrameReady
    /\ LET m == ReadMessage(rx)
           t == m.header.MessageType
       IN  IF BreaksLoop(m.status)
           THEN /\ rl' = IdleLoop("stopped")
                /\ connected' = FALSE
                /\ UNCHANGED <<rx, calls, ran, handlerLog>>
           ELSE /\ rx' = m.rest
                /\ handlerLog' = [n \in DOMAIN handlerLog |->
                      IF handlerLog[n].type = t
                      THEN [handlerLog[n] EXCEPT !.offered = @ + 1,
                                                 !.seen = Append(@, m.payload)]
                      ELSE handlerLog[n]]
                /\ calls' = [c \in 1..MaxCalls |->
                      IF /\ calls[c].pc \in {"registered", "waiting"}
                         /\ t = ResponseType(calls[c].op)
                      THEN [calls[c] EXCEPT !.answered = TRUE]
                      ELSE IF /\ calls[c].pc = "waiting"
                              /\ calls[c].op = "Login"
                              /\ t = LOGIN_REJECT
                      THEN [calls[c] EXCEPT !.rejected = TRUE]
                      ELSE calls[c]]
                /\ UNCHANGED connected
                /\ IF Len(HandlersFor(t)) = 0
                   THEN UNCHANGED <<rl, ran>>
                   ELSE /\ rl' = [pc |-> "run",
                                  msg |-> [header |-> m.header, payload |-> m.payload],
                                  hs |-> HandlersFor(t), i |-> 1, remaining |-> <<>>]
                        /\ ran' = <<>>
    /\ UNCHANGED <<conn, disconnect, isLoggedIn, messageHandlers, rxEof, tx,
                   crashed, nreg, nframes>>

\* the loop leaves when the connection has been closed under it: the
\* c.disconnect test at the top, or the read error
RLStop ==
    /\ ~crashed
    /\ UNCHANGED outsideCam
    /\ rl.pc = "read"
    /\ conn = "closed"
    /\ rl' = IdleLoop("stopped")
    /\ connected' = FALSE
    /\ UNCHANGED <<conn, disconnect, isLoggedIn, messageHandlers, rx, rxEof, tx,
                   calls, crashed, nreg, nframes, ran, handlerLog>>

\* A handler sends on the channel of call c.  A caller parked in its select
\* receives; a buffered channel with room takes the value; otherwise the
\* handler, and the loop with it, blocks in the send.
ChanSend(c, h, value) ==
    IF calls[c].pc = "waiting"
    THEN /\ calls' = [calls EXCEPT ![c].pc = "done", ![c].res = "OK",
                                   ![c].value = value]
         /\ rl' = AfterHandler(rl, h, RemoveHandler, FALSE)
    ELSE IF Len(calls[c].ch) < ChanCap(calls[c].op)
    THEN /\ calls' = [calls EXCEPT ![c].ch = Append(@, value)]
         /\ rl' = AfterHandler(rl, h, RemoveHandler, FALSE)
    ELSE /\ rl' = [rl EXCEPT !.pc = "sending"]
         /\ UNCHANGED calls

\* handleConnection, line 175: the next handler of the range loop is called
RLInvoke ==
    /\ ~crashed
    /\ UNCHANGED outsideCam
    /\ rl.pc = "run"
    /\ LET h == rl.hs[rl.i]
           t == rl.msg.header.MessageType
           payload == rl.msg.payload
       IN  /\ ran' = Append(ran, h.seq)
           /\ CASE h.kind = "user" ->
                    /\ rl' = AfterHandler(rl, h, h.remove, h.err)
                    /\ UNCHANGED <<isLoggedIn, tx, calls, crashed>>
                [] h.kind = "alive" ->
                    \* aliveRequestHandler: KeepHandler and SendPacket's error
                    /\ IF conn = "open"
                       THEN /\ tx' = Append(tx, CreatePacket(CreateCommandHeader(ALIVE_RESPONSE), <<>>))
                            /\ rl' = AfterHandler(rl, h, KeepHandler, FALSE)
                       ELSE /\ UNCHANGED tx
                            /\ rl' = AfterHandler(rl, h, KeepHandler, TRUE)
                    /\ UNCHANGED <<isLoggedIn, calls, crashed>>
                [] h.kind = "login" ->
                    \* Login's closure: loginResultHandler, then loginAccept <- true
                    /\ isLoggedIn' = loginResultLoggedIn(t, isLoggedIn)
                    /\ IF loginResultError(t)
                       THEN /\ rl' = AfterHandler(rl, h, RemoveHandler, TRUE)
                            /\ UNCHANGED calls
                       ELSE ChanSend(h.call, h, BoolValue(TRUE))
                    /\ UNCHANGED <<tx, crashed>>
                [] h.kind \in {"picture", "record", "firmware"} ->
                    /\ ChanSend(h.call, h, IF h.kind = "firmware" THEN BytesValue(payload)
                                         ELSE BoolValue(TRUE))
                    /\ UNCHANGED <<isLoggedIn, tx, crashed>>
                [] h.kind = "filelist" ->
                    \* GetFileList's closure, lines 231-239.  Slicing a
                    \* payload of fewer than 8 bytes panics, and so may
                    \* parseFileList.
                    /\ UNCHANGED <<isLoggedIn, tx>>
                    /\ IF Len(payload) < 8
                       THEN /\ crashed' = TRUE
                            /\ UNCHANGED <<rl, calls>>
                       ELSE LET numParts == SubSeq(payload, 1, 4)
                                currentPart == SubSeq(payload, 5, 8)
                                data == calls[h.call].data \o SubSeq(payload, 9, Len(payload))
                                parsed == parseFileList(data)
                                c == h.call
                            IN  IF ~GreaterEq32(AddOne32(currentPart), numParts)
                                THEN /\ calls' = [calls EXCEPT ![c].data = data]
                                     /\ rl' = AfterHandler(rl, h, KeepHandler, FALSE)
                                     /\ UNCHANGED crashed
                                ELSE IF parsed.panic
                                THEN /\ crashed' = TRUE
                                     /\ calls' = [calls EXCEPT ![c].data = data]
                                     /\ UNCHANGED rl
                                ELSE IF calls[c].pc = "waiting"
                                THEN /\ calls' = [calls EXCEPT ![c].data = data,
                                                               ![c].pc = "done",
                                                               ![c].res = "OK",
                                                               ![c].value = FilesValue(parsed.stored)]
                                     /\ rl' = AfterHandler(rl, h, RemoveHandler, FALSE)
                                     /\ UNCHANGED crashed
                                ELSE IF Len(calls[c].ch) < ChanCap(calls[c].op)
                                THEN /\ calls' = [calls EXCEPT ![c].data = data,
                                                               ![c].ch = Append(@, FilesValue(parsed.stored))]
                                     /\ rl' = AfterHandler(rl, h, RemoveHandler, FALSE)
                                     /\ UNCHANGED crashed
                                ELSE /\ calls' = [calls EXCEPT ![c].data = data]
                                     /\ rl' = [rl EXCEPT !.pc = "sending"]
                                     /\ UNCHANGED crashed
    /\ LET cut == IF rl'.pc = "assign"
                  THEN {rl.hs[j].seq : j \in (rl.i + 1)..Len(rl.hs)}
                  ELSE {}
       IN  handlerLog' = [n \in DOMAIN handlerLog |->
              [handlerLog[n] EXCEPT
                  !.invoked = IF n = rl.hs[rl.i].seq THEN @ + 1 ELSE @,
                  !.cut = @ \/ n \in cut]]
    /\ UNCHANGED <<conn, connected, disconnect, messageHandlers, rx, rxEof,
                   nreg, nframes>>

\* the mutant of RLAssign that merely skips the handlers an error cut off:
\* they stay in the list behind the handlers that asked to be kept
RLAssignSkipped ==
    /\ ~crashed
    /\ UNCHANGED outsideCam
    /\ rl.pc = "assign"
    /\ messageHandlers' =
          [messageHandlers EXCEPT ![rl.msg.header.MessageType] =
              rl.remaining \o SubSeq(rl.hs, rl.i + 1, Len(rl.hs))]
    /\ rl' = IdleLoop("read")
    /\ UNCHANGED <<conn, connected, disconnect, isLoggedIn, rx, rxEof, tx, calls,
                   crashed, nreg, nframes, ran, handlerLog>>

\* handleConnection, line 186: the list for the type is replaced by the
\* handlers that asked to be kept
RLAssign ==
    /\ ~crashed
    /\ UNCHANGED outsideCam
    /\ rl.pc = "assign"
    /\ messageHandlers' =
          [messageHandlers EXCEPT ![rl.msg.header.MessageType] = rl.remaining]
    /\ rl' = IdleLoop("read")
    /\ UNCHANGED <<conn, connected, disconnect, isLoggedIn, rx, rxEof, tx, calls,
                   crashed, nreg, nframes, ran, handlerLog>>

----------------------------------------------------------------------------
(* RTP relay, RTPRelay.go:1-146: data                                      *)

StreamMagic == 48350            \* 0xBCDE
StreamData == 1                 \* 0x0001, "H.264 Data"
StreamTime == 2                 \* 0x0002, "Time": the boundary of a frame
StreamHeaderLen == 8            \* four uint16 fields
BufferSize == 2048
ElapsedOffset == 12
ElapsedFactor == 90
HalfWord == 65536               \* 2^16
TrailerLen == 8                 \* binary.Write of a uint64

MaxRelays == 2                  \* relay instances
MaxDatagrams == 4               \* datagrams the camera sends
MaxReadErrors == 2              \* reads that return an error, per relay

Relays == 1..MaxRelays

\* buffer is a slice of BufferSize bytes, all zero when made.  The model
\* keeps its bytes up to the last one written; the rest are zero.
ByteAt(buffer, i) == IF i <= Len(buffer) THEN buffer[i] ELSE 0

\* buffer[from-1 : to], one-based and inclusive
Bytes(buffer, from, to) == [i \in 1..(to - from + 1) |-> ByteAt(buffer, from + i - 1)]

\* conn.ReadFrom(buffer) that returns a datagram: its bytes overwrite the
\* start of buffer and the bytes behind them stay
ReadInto(buffer, datagram) ==
    IF Len(datagram) >= Len(buffer) THEN datagram
    ELSE datagram \o SubSeq(buffer, Len(datagram) + 1, Len(buffer))

\* binary.Read(packetReader, binary.BigEndian, &header)
ReadStreamHeader(buffer) ==
    [Magic          |-> BigEndian(Bytes(buffer, 1, 2)),
     Length         |-> BigEndian(Bytes(buffer, 3, 4)),
     SequenceNumber |-> BigEndian(Bytes(buffer, 5, 6)),
     MessageType    |-> BigEndian(Bytes(buffer, 7, 8))]

\* A uint32 is kept as its two 16-bit halves <<high, low>>.
\* binary.LittleEndian.Uint32(b)
Uint32LE(b) == <<b[3] + 256 * b[4], b[1] + 256 * b[2]>>

\* (uint32)(elapsed)*90 in 32 bits, then binary.Write big-endian: four bytes
Times90(e) ==
    LET low == e[2] * ElapsedFactor
        high == (e[1] * ElapsedFactor + low \div HalfWord) % HalfWord
    IN  WriteBits(high, 16) \o WriteBits(low % HalfWord, 16)

\* the 16 bytes written to packetBuffer ahead of a packet's data
PacketHeader(sequenceNumber, elapsed) ==
    <<128, 99>> \o WriteBits(sequenceNumber, 16) \o Times90(elapsed)
        \o ZeroBytes(TrailerLen)

\* A relay instance: the RTPRelay struct (closeField is its field close),
\* its context, its two sockets, and the locals of its handleCameraStream
\* goroutine.  pc: "none" (not created) | "top" (at the head of the loop) |
\* "read" (in conn.ReadFrom) | "ended" | "panicked".
\* Bookkeeping: sent (the packets written to rtpConn, in order), log (for
\* each of them, the fragment it was written for), pending (the payloads of
\* the data fragments received since the last boundary fragment received),
\* received (the datagrams received), readErrors, stops, endedBy.
NoRelay ==
    [pc             |-> "none",
     closeField     |-> FALSE,
     targetIP       |-> <<>>,
     targetPort     |-> 0,
     done           |-> FALSE,
     listener       |-> "nil",
     rtpConn        |-> "nil",
     buffer         |-> <<>>,
     frameBuffer    |-> <<>>,
     packetBuffer   |-> <<>>,
     sequenceNumber |-> 0,
     elapsed        |-> <<0, 0>>,
     sent           |-> <<>>,
     log            |-> <<>>,
     pending        |-> <<>>,
     received       |-> <<>>,
     readErrors     |-> 0,
     stops          |-> 0,
     endedBy        |-> "none"]

RelayIdle ==
    /\ close = FALSE
    /\ relays = [r \in Relays |-> NoRelay]
    /\ ndatagrams = 0

\* a panic in any goroutine ends the process
RelayPanicked == \E r \in Relays : relays[r].pc = "panicked"

\* net.ListenPacket("udp", ":6669") succeeds unless the port is bound
PortFree == \A r \in Relays : relays[r].listener # "open"

----------------------------------------------------------------------------
(* RTP relay: operations                                                   *)

\* the target of the relay of the actioncam command, actioncam.go:57:
\* net.ParseIP("127.0.0.1"), 5220
LocalTarget == [ip |-> <<127, 0, 0, 1>>, port |-> 5220]

\* The relay CreateRTPRelay returns, lines 28-41, with its goroutine
\* started, lines 46 and 52-72.  A failed ListenPacket is logged and leaves
\* listener nil.  done tells whether ctx is cancelled already.
NewRelay(done, targetAddress, targetPort) ==
    [NoRelay EXCEPT !.pc = "top",
                    !.targetIP = targetAddress,
                    !.targetPort = targetPort,
                    !.done = done,
                    !.listener = IF PortFree THEN "open" ELSE "nil",
                    !.rtpConn = "open"]

\* CreateRTPRelay(ctx, targetAddress, targetPort), lines 27-49, for the
\* instance r
CreateRTPRelay(r, targetAddress, targetPort) ==
    /\ ~RelayPanicked
    /\ relays[r].pc = "none"
    /\ close' = FALSE
    /\ relays' = [relays EXCEPT ![r] = NewRelay(FALSE, targetAddress, targetPort)]
    /\ UNCHANGED <<ndatagrams, outsideRelay>>

\* ctx's cancel function is called
CancelContext(r) ==
    /\ ~RelayPanicked
    /\ relays[r].pc # "none"
    /\ ~relays[r].done
    /\ relays' = [relays EXCEPT ![r].done = TRUE]
    /\ UNCHANGED <<close, ndatagrams, outsideRelay>>

\* RTPRelay.Stop, lines 142-146.  Close on a nil listener panics.
Stopped(r) ==
    [relays EXCEPT
        ![r].closeField = TRUE,
        ![r].stops = Min(@ + 1, 2),
        ![r].pc = IF relays[r].listener = "nil" THEN "panicked" ELSE @,
        ![r].listener = IF @ = "nil" THEN @ ELSE "closed"]

Stop(r) ==
    /\ ~RelayPanicked
    /\ relays[r].pc # "none"
    /\ close' = TRUE
    /\ relays' = Stopped(r)
    /\ UNCHANGED <<ndatagrams, outsideRelay>>

\* What the loop at line 84 reads for the stop request of relay r
StopFlag(r) == close

\* The head of the loop, lines 75-88: SetReadDeadline on a nil conn panics;
\* a done context or a set stop flag close both sockets and leave the loop
LoopTop(r) ==
    /\ ~RelayPanicked
    /\ relays[r].pc = "top"
    /\ relays' = [relays EXCEPT ![r] =
          IF @.listener = "nil" THEN [@ EXCEPT !.pc = "panicked"]
          ELSE IF @.done \/ StopFlag(r)
          THEN [@ EXCEPT !.pc = "ended",
                         !.rtpConn = "closed",
                         !.listener = "closed",
                         !.endedBy = IF relays[r].done THEN "context" ELSE "close"]
          ELSE [@ EXCEPT !.pc = "read"]]
    /\ UNCHANGED <<close, ndatagrams, outsideRelay>>

\* the `break` at line 97, after a header whose Magic is not 0xBCDE
AfterBadMagic == "top"

\* Lines 91-136: what one pass of the loop does with the contents of
\* buffer.  fresh tells whether ReadFrom has just put a datagram there.
HandleBuffer(rec, fresh) ==
    LET header == ReadStreamHeader(rec.buffer)
        payload == Bytes(rec.buffer, StreamHeaderLen + 1,
                         StreamHeaderLen + header.Length)
        packet == rec.packetBuffer \o rec.frameBuffer
        sequenceNumber == (rec.sequenceNumber + 1) % HalfWord
        emitted ==
            [rec EXCEPT
                !.pc = "top",
                !.sent = Append(@, packet),
                !.log = Append(@, [fresh |-> fresh, trigger |-> payload,
                                   data |-> rec.pending]),
                !.packetBuffer = PacketHeader(sequenceNumber, rec.elapsed),
                !.frameBuffer = <<>>,
                !.sequenceNumber = sequenceNumber]
    IN  IF header.Magic # StreamMagic
        THEN [rec EXCEPT !.pc = AfterBadMagic]
        ELSE IF StreamHeaderLen + header.Length > BufferSize
        THEN [rec EXCEPT !.pc = "top"]
        ELSE IF header.MessageType = StreamData
        THEN [rec EXCEPT !.pc = "top", !.frameBuffer = @ \o payload]
        ELSE IF header.MessageType = StreamTime
        THEN IF Len(payload) < ElapsedOffset + 4
             THEN [emitted EXCEPT !.pc = "panicked"]
             ELSE [emitted EXCEPT !.elapsed =
                      Uint32LE(SubSeq(payload, ElapsedOffset + 1, ElapsedOffset + 4))]
        ELSE [rec EXCEPT !.pc = "top"]

\* what a received datagram adds to the bookkeeping
Received(rec, datagram) ==
    LET header == ReadStreamHeader(datagram)
        payload == SubSeq(datagram, StreamHeaderLen + 1, Len(datagram))
    IN  [rec EXCEPT
            !.received = Append(@, datagram),
            !.pending =
                IF header.Magic # StreamMagic THEN @
                ELSE IF header.MessageType = StreamData THEN Append(@, payload)
                ELSE IF header.MessageType = StreamTime THEN <<>>
                ELSE @]

\* conn.ReadFrom(buffer), line 90, returns a datagram, and the pass of the
\* loop that follows
ReadDatagram(r, datagram) ==
    /\ ~RelayPanicked
    /\ relays[r].pc = "read"
    /\ relays[r].listener = "open"
    /\ relays' = [relays EXCEPT ![r] =
          Received(HandleBuffer([@ EXCEPT !.buffer = ReadInto(@, datagram)], TRUE),
                   datagram)]
    /\ ndatagrams' = ndatagrams + 1
    /\ UNCHANGED <<close, outsideRelay>>

\* conn.ReadFrom(buffer) returns an error because the deadline of line 75
\* has passed, and the pass of the loop that follows: the error is not
\* looked at and buffer is as it was.  readErrors counts up to
\* MaxReadErrors and stays there.
ReadTimesOut(r) ==
    /\ ~RelayPanicked
    /\ relays[r].pc = "read"
    /\ relays[r].listener = "open"
    /\ relays' = [relays EXCEPT ![r] =
          HandleBuffer([@ EXCEPT !.readErrors = Min(@ + 1, MaxReadErrors)], FALSE)]
    /\ UNCHANGED <<close, ndatagrams, outsideRelay>>

\* conn.ReadFrom(buffer) returns an error at once because the listener is
\* closed, and the pass of the loop that follows
ReadOnClosed(r) ==
    /\ ~RelayPanicked
    /\ relays[r].pc = "read"
    /\ relays[r].listener = "closed"
    /\ relays' = [relays EXCEPT ![r] = HandleBuffer(@, FALSE)]
    /\ UNCHANGED <<close, ndatagrams, outsideRelay>>

----------------------------------------------------------------------------
(* RTSP server, package rtsp (src/unnamed/part_004): text                  *)
(* A string is the sequence of its bytes.                                  *)

SP == 32            \* ' '
COLON == 58         \* ':'
SEMICOLON == 59     \* ';'
EQUALS == 61        \* '='
DASH == 45          \* '-'
PLUS == 43          \* '+'
DOT == 46           \* '.'
\* "\r\n"
CRLF == <<13, 10>>

\* "OPTIONS"
OPTIONS == <<79, 80, 84, 73, 79, 78, 83>>

\* "DESCRIBE"
DESCRIBE == <<68, 69, 83, 67, 82, 73, 66, 69>>

\* "SETUP"
SETUP == <<83, 69, 84, 85, 80>>

\* "PLAY"
PLAY == <<80, 76, 65, 89>>

\* "TEARDOWN"
TEARDOWN == <<84, 69, 65, 82, 68, 79, 87, 78>>

\* "RECORD"
RECORD == <<82, 69, 67, 79, 82, 68>>

\* "CSeq"
KeyCSeq == <<67, 83, 101, 113>>

\* "Transport"
KeyTransport == <<84, 114, 97, 110, 115, 112, 111, 114, 116>>

\* "Session"
KeySession == <<83, 101, 115, 115, 105, 111, 110>>

\* "Content-Type"
KeyContentType == <<67, 111, 110, 116, 101, 110, 116, 45, 84, 121, 112,
    101>>

\* "Content-Length"
KeyContentLength == <<67, 111, 110, 116, 101, 110, 116, 45, 76, 101, 110,
    103, 116, 104>>

\* "RTP-Info"
KeyRTPInfo == <<82, 84, 80, 45, 73, 110, 102, 111>>

\* "Public: DESCRIBE, SETUP, PLAY, PAUSE, RECORD\r\n\r\n"
PublicLine == <<80, 117, 98, 108, 105, 99, 58, 32, 68, 69, 83, 67, 82, 73,
    66, 69, 44, 32, 83, 69, 84, 85, 80, 44, 32, 80, 76, 65, 89, 44, 32,
    80, 65, 85, 83, 69, 44, 32, 82, 69, 67, 79, 82, 68, 13, 10, 13, 10>>

\* "application/sdp"
ApplicationSdp == <<97, 112, 112, 108, 105, 99, 97, 116, 105, 111, 110,
    47, 115, 100, 112>>

\* "v=0\r\ns=ActionCamera\r\nm=video 0 RTP/AVP 99\r\na=rtpmap:99 H264/90000"
Sdp == <<118, 61, 48, 13, 10, 115, 61, 65, 99, 116, 105, 111, 110, 67, 97,
    109, 101, 114, 97, 13, 10, 109, 61, 118, 105, 100, 101, 111, 32, 48,
    32, 82, 84, 80, 47, 65, 86, 80, 32, 57, 57, 13, 10, 97, 61, 114, 116,
    112, 109, 97, 112, 58, 57, 57, 32, 72, 50, 54, 52, 47, 57, 48, 48, 48,
    48>>

\* ";ssrc=0"
Ssrc0 == <<59, 115, 115, 114, 99, 61, 48>>

\* "url="
UrlEquals == <<117, 114, 108, 61>>

\* ";seq=10;rtptime=10"
SeqRtptime == <<59, 115, 101, 113, 61, 49, 48, 59, 114, 116, 112, 116,
    105, 109, 101, 61, 49, 48>>

\* "RTSP/1.0"
RtspVersion == <<82, 84, 83, 80, 47, 49, 46, 48>>

\* "OK"
StatusOK == <<79, 75>>

\* strings.Join(parts, sep)
RECURSIVE Join(_, _)
Join(parts, sep) ==
    IF Len(parts) = 0 THEN <<>>
    ELSE IF Len(parts) = 1 THEN parts[1]
    ELSE parts[1] \o sep \o Join(Tail(parts), sep)

\* the bytes strings.TrimSpace takes for white space
WhiteSpace == {9, 10, 11, 12, 13, 32}

\* strings.TrimSpace(s)
RECURSIVE TrimSpace(_)
TrimSpace(s) ==
    IF Len(s) = 0 THEN s
    ELSE IF s[1] \in WhiteSpace THEN TrimSpace(Tail(s))
    ELSE IF s[Len(s)] \in WhiteSpace THEN TrimSpace(SubSeq(s, 1, Len(s) - 1))
    ELSE s

\* fmt.Sprintf("%d", n) for n >= 0
RECURSIVE Itoa(_)
Itoa(n) == IF n < 10 THEN <<48 + n>> ELSE Itoa(n \div 10) \o <<48 + (n % 10)>>

\* the value of a numeral of at most ten digits
RECURSIVE NumeralValue(_)
NumeralValue(digits) ==
    IF Len(digits) = 0 THEN 0
    ELSE NumeralValue(SubSeq(digits, 1, Len(digits) - 1)) * 10 + digits[Len(digits)]

MaxInt32 == <<2, 1, 4, 7, 4, 8, 3, 6, 4, 7>>

\* strconv.ParseInt(s, 10, 32): an optional sign and decimal digits; an
\* error for anything else and for a value outside the 32-bit range.  The
\* model has no use for the value that comes with an error.
ParseInt(s) ==
    LET signed == Len(s) > 0 /\ s[1] \in {PLUS, DASH}
        digits == IF signed THEN Tail(s) ELSE s
    IN  IF Len(digits) = 0 \/ \E i \in 1..Len(digits) : digits[i] \notin 48..57
        THEN [err |-> TRUE, value |-> 0]
        ELSE LET n == Normalize([i \in 1..Len(digits) |-> digits[i] - 48])
             IN  IF NumeralGreater(n, MaxInt32)
                 THEN [err |-> TRUE, value |-> 0]
                 ELSE [err |-> FALSE,
                       value |-> IF signed /\ s[1] = DASH
                                 THEN 0 - NumeralValue(n) ELSE NumeralValue(n)]

\* An IPv4 address is the sequence of its four octets; <<>> is the nil IP.
\* IP.String()
IPString(ip) ==
    IF Len(ip) = 0 THEN <<>>
    ELSE Join([i \in 1..Len(ip) |-> Itoa(ip[i])], <<DOT>>)

\* one decimal octet of a dotted address, -1 if it is none
Octet(s) ==
    IF Len(s) = 0 \/ Len(s) > 3 \/ \E i \in 1..Len(s) : s[i] \notin 48..57
    THEN 0 - 1
    ELSE LET v == NumeralValue([i \in 1..Len(s) |-> s[i] - 48])
         IN  IF v > 255 THEN 0 - 1 ELSE v

\* net.ParseIP(s) for dotted-decimal text: nil for anything else
ParseIP(s) ==
    LET parts == Split(s, DOT)
    IN  IF Len(parts) = 4 /\ \A i \in 1..4 : Octet(parts[i]) >= 0
        THEN [i \in 1..4 |-> Octet(parts[i])]
        ELSE <<>>

\* fmt.Sprintf("%X", md5.Sum(b)): 32 hexadecimal digits.  The digest is not
\* computed here; the model writes it as the text "MD5" followed by b, one
\* token for each input.
MD5Hex(b) == <<77, 68, 53>> \o b

----------------------------------------------------------------------------
(* RTSP server: data                                                       *)

MaxClients == 2                 \* client connections
MaxRequests == 3                \* requests handled in one behaviour

Clients == 1..MaxClients

\* conn.RemoteAddr() of client k: 10.0.0.k, port 4000k
ClientIP(k) == <<10, 0, 0, k>>
ClientAddr(k) == IPString(ClientIP(k)) \o <<COLON>> \o Itoa(40000 + k)

\* writeStatus(conn, status, statusWord)
WriteStatus(status, statusWord) ==
    RtspVersion \o <<SP>> \o Itoa(status) \o <<SP>> \o statusWord \o CRLF

\* writeHeader(conn, key, value)
WriteHeader(key, value) == key \o <<COLON, SP>> \o value \o CRLF

\* request := strings.Split(packet[0], " ")
RequestLine(packet) == Split(packet[1], SP)

\* headers[key] of the map built at lines 97-103: the value of the last
\* header line with that key, "" if there is none
HeaderValue(packet, key) ==
    LET parts(i) == Split(packet[i], COLON)
        found == {i \in 2..Len(packet) : Len(parts(i)) >= 2 /\ parts(i)[1] = key}
    IN  IF found = {} THEN <<>>
        ELSE LET i == CHOOSE j \in found : \A h \in found : h <= j
             IN  TrimSpace(Join(Tail(parts(i)), <<COLON>>))

\* replyCSeq(conn, headers)
ReplyCSeq(packet) == WriteHeader(KeyCSeq, HeaderValue(packet, KeyCSeq))

\* session := fmt.Sprintf("%X", md5.Sum([]byte(conn.RemoteAddr().String())))
Session(k) == MD5Hex(ClientAddr(k))

\* Lines 119-121: the port in the last parameter of the Transport header.
\* Indexing the part after '=' panics when there is no '='.
TransportPort(transport) ==
    LET transportDescription == Split(transport, SEMICOLON)
        rtpDescription == transportDescription[Len(transportDescription)]
        assignment == Split(rtpDescription, EQUALS)
    IN  IF Len(assignment) < 2
        THEN [panic |-> TRUE, err |-> FALSE, value |-> 0]
        ELSE LET remoteRTPPort == ParseInt(Split(assignment[2], DASH)[1])
             IN  [panic |-> FALSE, err |-> remoteRTPPort.err,
                  value |-> remoteRTPPort.value]

\* what handleRequest writes to the connection, by method
OptionsReply(packet) == WriteStatus(200, StatusOK) \o ReplyCSeq(packet) \o PublicLine

DescribeReply(packet) ==
    WriteStatus(200, StatusOK) \o ReplyCSeq(packet)
        \o WriteHeader(KeyContentType, ApplicationSdp)
        \o WriteHeader(KeyContentLength, Itoa(Len(Sdp)))
        \o CRLF \o Sdp

SetupReply(k, packet) ==
    WriteStatus(200, StatusOK) \o ReplyCSeq(packet)
        \o WriteHeader(KeyTransport, HeaderValue(packet, KeyTransport) \o Ssrc0)
        \o WriteHeader(KeySession, Session(k))
        \o CRLF

PlayReply(k, packet) ==
    WriteStatus(200, StatusOK) \o ReplyCSeq(packet)
        \o WriteHeader(KeySession, Session(k))
        \o WriteHeader(KeyRTPInfo, UrlEquals \o RequestLine(packet)[2] \o SeqRtptime)
        \o CRLF

TeardownReply(packet) == WriteStatus(200, StatusOK) \o ReplyCSeq(packet) \o CRLF

RecordReply(k, packet) ==
    WriteStatus(200, StatusOK) \o ReplyCSeq(packet)
        \o WriteHeader(KeySession, Session(k))
        \o CRLF

\* The Server struct after CreateServer, lines 30-41, and its ListenAndServe
\* goroutine.  rtpRelay is a relay instance, 0 for nil.  pc: "off" (not
\* called) | "select" (at the head of the loop) | "accept" (in
\* listener.Accept) | "returned" | "panicked".  Bookkeeping: stops, the calls
\* of Stop, and accepted, the connections accepted after a stop or a cancel.
CreatedServer ==
    [pc            |-> "off",
     listener      |-> "nil",
     remoteRTPPort |-> 0,
     remoteIP      |-> <<>>,
     rtpRelay      |-> 0,
     done          |-> FALSE,
     stops         |-> 0,
     accepted      |-> 0]

\* A client connection and its handleClient goroutine.  pc: "none" (not
\* accepted) | "idle" (scanning for the next request) | "record" (in
\* s.camera.StartRecording()).  written: the bytes written to conn.  call: the
\* camera call of the request being handled, 0 if none.  Bookkeeping:
\* packets, the requests handleRequest was called with, in order.
NoClient ==
    [pc      |-> "none",
     written |-> <<>>,
     packets |-> <<>>,
     call    |-> 0]

ServerIdle ==
    /\ server = CreatedServer
    /\ clients = [k \in Clients |-> NoClient]
    /\ nrequests = 0

\* the process has died of a panic
Dead == crashed \/ RelayPanicked

----------------------------------------------------------------------------
(* RTSP server: operations                                                 *)

\* net.Listen succeeds, lines 46-52
ListenAndServe ==
    /\ ~Dead
    /\ server.pc = "off"
    /\ server' = [server EXCEPT !.pc = "select", !.listener = "open"]
    /\ UNCHANGED <<clients, nrequests, outsideServer>>

\* net.Listen fails and ListenAndServe returns the error, lines 46-49
ListenFails ==
    /\ ~Dead
    /\ server.pc = "off"
    /\ server' = [server EXCEPT !.pc = "returned"]
    /\ UNCHANGED <<clients, nrequests, outsideServer>>

\* the break at line 58, after listener.Close()
AfterContextDone == "select"

\* The select at the head of the accept loop, lines 54-59
AcceptSelect ==
    /\ ~Dead
    /\ server.pc = "select"
    /\ server' = IF server.done
                 THEN [server EXCEPT !.listener = "closed", !.pc = AfterContextDone]
                 ELSE [server EXCEPT !.pc = "accept"]
    /\ UNCHANGED <<clients, nrequests, outsideServer>>

\* listener.Accept() returns the connection of client k, lines 60-67
Accept(k) ==
    /\ ~Dead
    /\ server.pc = "accept"
    /\ server.listener = "open"
    /\ clients[k].pc = "none"
    /\ clients' = [clients EXCEPT ![k].pc = "idle"]
    /\ server' = [server EXCEPT
          !.pc = "select",
          !.accepted = IF server.done \/ server.stops > 0 THEN 1 ELSE @]
    /\ UNCHANGED <<nrequests, outsideServer>>

\* listener.Accept() returns an error because the listener is closed: the
\* error is logged, conn is nil and conn.RemoteAddr() at line 65 panics
AcceptFails ==
    /\ ~Dead
    /\ server.pc = "accept"
    /\ server.listener = "closed"
    /\ server' = [server EXCEPT !.pc = "panicked"]
    /\ crashed' = TRUE
    /\ UNCHANGED <<clients, nrequests, exceptCrashed>>

\* Server.Stop, lines 177-179.  Close on the nil listener of a server that
\* is not listening panics.
ServerStop ==
    /\ ~Dead
    /\ server' = [server EXCEPT
          !.stops = Min(@ + 1, 2),
          !.listener = IF @ = "nil" THEN @ ELSE "closed"]
    /\ crashed' = (server.listener = "nil")
    /\ UNCHANGED <<clients, nrequests, exceptCrashed>>

\* the cancel function of the server's context is called; the relays were
\* created with the same context
ServerCancel ==
    /\ ~Dead
    /\ ~server.done
    /\ server' = [server EXCEPT !.done = TRUE]
    /\ relays' = [r \in Relays |->
                    IF relays[r].pc = "none" THEN relays[r]
                    ELSE [relays[r] EXCEPT !.done = TRUE]]
    /\ UNCHANGED <<clients, nrequests, close, ndatagrams, codecVars, listVars,
                   camVars>>

\* the relay instance the next CreateRTPRelay makes, 0 if the model has none
\* left
NextRelay ==
    IF \E r \in Relays : relays[r].pc = "none"
    THEN CHOOSE r \in Relays :
            relays[r].pc = "none" /\ \A q \in 1..(r - 1) : relays[q].pc # "none"
    ELSE 0

\* the camera call the next command makes, 0 if the model has none left
NextCall ==
    LET free == {c \in 1..MaxCalls :
                    /\ calls[c].pc = "idle"
                    /\ \A k \in Clients : clients[k].call # c}
    IN  IF free = {} THEN 0 ELSE CHOOSE c \in free : \A d \in free : c <= d

\* s.camera.StartPreviewStream(), Camera.go:331-337, whose error line 139
\* drops: the packets written to the camera afterwards, and whether the write
\* went to a nil connection
StartPreviewStream ==
    IF ~isLoggedIn \/ conn = "closed" THEN [tx |-> tx, panic |-> FALSE]
    ELSE IF conn = "nil" THEN [tx |-> tx, panic |-> TRUE]
    ELSE [tx |-> Append(tx, CreateCommandPacket(START_PREVIEW)), panic |-> FALSE]

\* handleRequest(packet, conn) for the connection of client k, lines 87-162,
\* RECORD apart.  A request without lines panics at packet[0].
HandleRequest(k, packet) ==
    /\ ~Dead
    /\ clients[k].pc = "idle"
    /\ nrequests' = nrequests + 1
    /\ UNCHANGED <<ndatagrams, codecVars, listVars>>
    /\ UNCHANGED <<conn, connected, disconnect, isLoggedIn, messageHandlers, rl,
                   rx, rxEof, calls, nreg, nframes, ran, handlerLog>>
    /\ LET handled == [clients EXCEPT ![k].packets = Append(@, packet)]
           replied(bytes) == [handled EXCEPT ![k].written = @ \o bytes]
           method == RequestLine(packet)[1]
       IN  IF Len(packet) = 0
           THEN /\ crashed' = TRUE
                /\ clients' = handled
                /\ UNCHANGED <<server, tx, close, relays>>
           ELSE IF Len(RequestLine(packet)) # 3
           THEN /\ clients' = handled
                /\ UNCHANGED <<server, tx, crashed, close, relays>>
           ELSE IF method = OPTIONS
           THEN /\ clients' = replied(OptionsReply(packet))
                /\ UNCHANGED <<server, tx, crashed, close, relays>>
           ELSE IF method = DESCRIBE
           THEN /\ clients' = replied(DescribeReply(packet))
                /\ UNCHANGED <<server, tx, crashed, close, relays>>
           ELSE IF method = SETUP
           THEN LET port == TransportPort(HeaderValue(packet, KeyTransport))
                IN  /\ crashed' = port.panic
                    /\ IF port.panic \/ port.err
                       THEN /\ clients' = handled
                            /\ UNCHANGED server
                       ELSE /\ clients' = replied(SetupReply(k, packet))
                            /\ server' = [server EXCEPT
                                  !.remoteRTPPort = port.value,
                                  !.remoteIP = IPString(ClientIP(k))]
                    /\ UNCHANGED <<tx, close, relays>>
           ELSE IF method = PLAY
           THEN LET preview == StartPreviewStream
                IN  /\ NextRelay # 0
                    /\ close' = FALSE
                    /\ relays' = [relays EXCEPT ![NextRelay] =
                          NewRelay(server.done, ParseIP(server.remoteIP),
                                   server.remoteRTPPort)]
                    /\ server' = [server EXCEPT !.rtpRelay = NextRelay]
                    /\ tx' = preview.tx
                    /\ crashed' = preview.panic
                    /\ clients' = IF preview.panic THEN handled
                                  ELSE replied(PlayReply(k, packet))
           ELSE IF method = TEARDOWN
           THEN /\ close' = TRUE
                /\ IF server.rtpRelay = 0
                   THEN /\ crashed' = TRUE
                        /\ clients' = handled
                        /\ UNCHANGED relays
                   ELSE /\ relays' = Stopped(server.rtpRelay)
                        /\ clients' = IF relays[server.rtpRelay].listener = "nil"
                                      THEN handled
                                      ELSE replied(TeardownReply(packet))
                        /\ UNCHANGED crashed
                /\ UNCHANGED <<server, tx>>
           ELSE IF method = RECORD
           THEN /\ NextCall # 0
                /\ clients' = [handled EXCEPT ![k].pc = "record",
                                              ![k].call = NextCall]
                /\ UNCHANGED <<server, tx, crashed, close, relays>>
           ELSE /\ clients' = handled
                /\ UNCHANGED <<server, tx, crashed, close, relays>>

\* s.camera.StartRecording() of a RECORD request, line 152: its first steps
RecordCalls(k) ==
    /\ ~RelayPanicked
    /\ clients[k].pc = "record"
    /\ clients[k].call # 0
    /\ Invoke(clients[k].call, "StartRecording")

\* StartRecording has returned, its error is dropped, and the rest of the
\* RECORD branch, lines 154-157
RecordReplies(k) ==
    /\ ~Dead
    /\ clients[k].pc = "record"
    /\ clients[k].call # 0
    /\ calls[clients[k].call].pc = "done"
    /\ clients' = [clients EXCEPT
          ![k].pc = "idle",
          ![k].call = 0,
          ![k].written = @ \o RecordReply(k, clients[k].packets[Len(clients[k].packets)])]
    /\ UNCHANGED <<server, nrequests, outsideServer>>

----------------------------------------------------------------------------
(* SpecCodec: the codec's functions applied to inputs drawn from bounded   *)
(* sets                                                                    *)

MaxPayloadLen == 2
PayloadBytes == {0, 171, 255}

RECURSIVE SeqsUpTo(_, _)
SeqsUpTo(S, n) ==
    IF n = 0 THEN {<<>>}
    ELSE LET shorter == SeqsUpTo(S, n - 1)
         IN  shorter \cup {Append(s, b) : s \in {t \in shorter : Len(t) = n - 1}, b \in S}

CodecPayloads == SeqsUpTo(PayloadBytes, MaxPayloadLen)

\* TLC's integers end at 2^31 - 1, so the message types drawn stay below 2^31
CodecHeaders ==
    [Magic : {ControlMagic, 0, 48350},
     Length : {0, 7},
     MessageType : {TAKE_PICTURE, LOGIN, 16909060}]     \* 16909060 = 0x01020304

\* username and password lengths: empty, short, the field width, longer
NameLens == {0, 5, 64, 65, 70, 130}
UserName(n) == Repeat(117, n)   \* "uuu..."
Password(n) == Repeat(112, n)   \* "ppp..."

NoMsg == [status |-> "none", header |-> NoHeader, payload |-> <<>>, rest |-> <<>>]

\* One call per behaviour: either CreatePacket(header, payload) followed by the
\* decoder, or CreateLoginPacket(username, password)
CodecInit ==
    /\ CamInit
    /\ ListIdle
    /\ RelayIdle
    /\ ServerIdle
    /\ codecPacket = <<>>
    /\ codecMsg = NoMsg
    /\ \/ /\ codecPc = "input"
          /\ \/ /\ codecHeader \in CodecHeaders
                /\ codecPayload \in CodecPayloads
             \/ /\ codecHeader = CreateCommandHeader(TAKE_PICTURE)
                /\ codecPayload = ZeroBytes(LengthModulus)
          /\ codecUser = <<>>
          /\ codecPass = <<>>
       \/ /\ codecPc = "credentials"
          /\ codecHeader = NoHeader
          /\ codecPayload = <<>>
          /\ codecUser \in {UserName(n) : n \in NameLens}
          /\ codecPass \in {Password(n) : n \in NameLens}

\* packet := CreatePacket(header, payload)
CodecEncode ==
    /\ codecPc = "input"
    /\ codecPacket' = CreatePacket(codecHeader, codecPayload)
    /\ codecPc' = "encoded"
    /\ UNCHANGED <<codecHeader, codecPayload, codecUser, codecPass, codecMsg>>
    /\ UNCHANGED outsideCodec

\* the receive loop reads the packet back
CodecDecode ==
    /\ codecPc = "encoded"
    /\ codecMsg' = ReadMessage(codecPacket)
    /\ codecPc' = "decoded"
    /\ UNCHANGED <<codecHeader, codecPayload, codecUser, codecPass, codecPacket>>
    /\ UNCHANGED outsideCodec

\* packet := CreateLoginPacket(username, password)
CodecLogin ==
    /\ codecPc = "credentials"
    /\ codecPacket' = CreateLoginPacket(codecUser, codecPass)
    /\ codecPc' = "login"
    /\ UNCHANGED <<codecHeader, codecPayload, codecUser, codecPass, codecMsg>>
    /\ UNCHANGED outsideCodec

CodecNext == CodecEncode \/ CodecDecode \/ CodecLogin

SpecCodec == CodecInit /\ [][CodecNext]_vars

----------------------------------------------------------------------------
(* Claims about the codec, checked under SpecCodec                         *)

\* What the round trip is to give back
RoundTripped ==
    /\ codecMsg.status = "ok"
    /\ codecMsg.header = [codecHeader EXCEPT !.Length = Len(codecPayload)]
    /\ codecMsg.payload = codecPayload

\* C1 as stated: for every header and every payload, the decoder gives back
\* the header with Length = len(payload) and the payload.  Fails for a header
\* whose magic is not 0xABCD (the decoder breaks) and for a payload of 65536
\* bytes or more (the length field keeps the low 16 bits, and the decoder
\* takes that many bytes as the payload).
C1_RoundTripEveryInput == codecPc = "decoded" => RoundTripped

\* C1 (amended): for every header whose Magic is 0xABCD and every payload of at
\* most 65535 bytes, the empty one included, the decoder applied to
\* CreatePacket(header, payload) gives back the header with Length =
\* len(payload) and the payload, and leaves no byte unread.
C1_RoundTrip ==
    (/\ codecPc = "decoded"
     /\ codecHeader.Magic = ControlMagic
     /\ Len(codecPayload) < LengthModulus)
        => (RoundTripped /\ codecMsg.rest = <<>>)

C1_Witness ==
    /\ codecPc = "decoded"
    /\ codecHeader.Magic = ControlMagic
    /\ codecHeader.Length # Len(codecPayload)
    /\ Len(codecPayload) > 0
    /\ RoundTripped

Field64(s) ==
    [i \in 1..LoginFieldOffset |-> IF i <= Len(s) THEN s[i] ELSE 0]

\* C3 as stated: for every username and password the login payload is 128
\* bytes, bytes 0..63 are the username truncated to 64 bytes and zero-padded,
\* bytes 64..127 are the password truncated to 64 bytes and zero-padded.  Fails
\* for a username longer than 64 bytes: copy() runs on into the password field.
C3_LoginPayloadFields ==
    codecPc = "login" =>
        LET payload == SubSeq(codecPacket, 9, Len(codecPacket))
        IN  /\ Len(payload) = LoginPayloadLen
            /\ SubSeq(payload, 1, LoginFieldOffset) = Field64(codecUser)
            /\ SubSeq(payload, LoginFieldOffset + 1, LoginPayloadLen) = Field64(codecPass)

----------------------------------------------------------------------------
(* Spec: one session, from CreateCamera on; callers, the camera and the    *)
(* receive loop interleave freely and time passes at any moment            *)

CodecIdle ==
    /\ codecPc = "off"
    /\ codecHeader = NoHeader
    /\ codecPayload = <<>>
    /\ codecUser = <<>>
    /\ codecPass = <<>>
    /\ codecPacket = <<>>
    /\ codecMsg = NoMsg

Init == CodecIdle /\ ListIdle /\ CamInit /\ RelayIdle /\ ServerIdle

Frame(messageType, payload) == [type |-> messageType, payload |-> payload]

\* a one-part file list: totalParts = 1, partIndex = 0, "/a:1;"
OnePartList == <<1, 0, 0, 0, 0, 0, 0, 0, 47, 97, 58, 49, 59>>

\* the frames the camera may send
CameraFrames ==
    {Frame(LOGIN_ACCEPT, <<>>), Frame(LOGIN_REJECT, <<>>),
     Frame(ALIVE_REQUEST, <<>>), Frame(PICTURE_SAVED, <<>>),
     Frame(RECORD_COMMAND_ACCEPT, <<>>), Frame(FIRMWARE_INFORMATION, <<118, 49>>),
     Frame(FILE_LIST_CONTENT, OnePartList)}

CallStarts == \E c \in 1..MaxCalls, op \in Operations : Invoke(c, op)
CallSends == \E c \in 1..MaxCalls : Send(c)
CameraSends ==
    /\ nframes < MaxFrames
    /\ \E f \in CameraFrames : PeerSend(f.type, f.payload)
CallTimesOut == \E c \in 1..MaxCalls : Timeout(c)

Next ==
    \/ Connect
    \/ CallStarts
    \/ CallSends
    \/ CameraSends
    \/ RLRead
    \/ RLInvoke
    \/ RLAssign
    \/ Tick
    \/ CallTimesOut

Spec == Init /\ [][Next]_vars

\* Spec with time passing and fired timers waking their callers: the Go
\* runtime delivers on a time.After channel once its duration has passed,
\* and a goroutine parked in a select on it is then scheduled.
SpecTimed == Spec /\ WF_vars(Tick) /\ WF_vars(CallTimesOut)

\* SpecTimed with every goroutine scheduled: the receive loop takes its
\* next step when it has one, and so does a caller about to send.
SpecFair ==
    /\ SpecTimed
    /\ WF_vars(RLRead) /\ WF_vars(RLInvoke) /\ WF_vars(RLAssign)
    /\ WF_vars(CallSends)

----------------------------------------------------------------------------
(* Claims about the operations, checked under Spec                         *)

Calls == 1..MaxCalls

Commands == {"TakePicture", "StartRecording", "StopRecording", "GetFileList",
             "GetFirmwareInfo", "StartPreviewStream"}

\* C4: each of the six command operations called while the session is not
\* logged in fails at once with the not-logged-in error, having registered
\* no handler and sent no frame.
C4_NotLoggedInFailsAtOnce ==
    \A c \in Calls :
        (calls[c].op \in Commands /\ ~calls[c].wasLoggedIn) =>
            /\ calls[c].pc = "done"
            /\ calls[c].res = "NotLoggedIn"
            /\ ~calls[c].registered
            /\ ~calls[c].sent

\* the response-awaiting commands, which time out after CommandTimeout
FiveSecondCommands == {"TakePicture", "StartRecording", "StopRecording",
                       "GetFirmwareInfo"}

\* call c is a response-awaiting command begun on a logged-in session, and
\* no frame of the type it awaits has been read since it began
Unanswered(c) ==
    /\ calls[c].op \in FiveSecondCommands \cup {"GetFileList"}
    /\ calls[c].wasLoggedIn
    /\ calls[c].sent
    /\ ~calls[c].answered

\* what an unanswered command has returned, and when
TimeoutNotBefore ==
    \A c \in Calls :
        (Unanswered(c) /\ calls[c].pc = "done") =>
            /\ calls[c].res = "Timeout"
            /\ calls[c].op \in FiveSecondCommands => calls[c].elapsed >= CommandTimeout
            /\ calls[c].op = "GetFileList" => calls[c].elapsed >= FileListTimeout

\* an unanswered command parked in its select returns
TimeoutReturns ==
    \A c \in Calls :
        (Unanswered(c) /\ calls[c].pc = "waiting") ~>
            (calls[c].pc = "done" \/ calls[c].answered)

\* C5: a response-awaiting command of a logged-in session whose camera never
\* sends the response type returns; what it returns is its timeout error,
\* never success, and no sooner than 5 s after it began to wait (10 s for
\* GetFileList).
C5_CommandTimeout == []TimeoutNotBefore /\ TimeoutReturns

\* an unanswered GetFileList has returned its timeout error after 10 s
C5_Witness ==
    \E c \in Calls :
        /\ Unanswered(c)
        /\ calls[c].op = "GetFileList"
        /\ calls[c].pc = "done"
        /\ calls[c].res = "Timeout"
        /\ calls[c].elapsed = FileListTimeout

\* what Login has returned, and when
LoginAcceptOrTimeout ==
    \A c \in Calls :
        (calls[c].op = "Login" /\ calls[c].pc = "done") =>
            /\ calls[c].res \in {"OK", "Timeout"}
            /\ calls[c].res = "OK" =>
                  (calls[c].answered /\ isLoggedIn)
            /\ ~calls[c].answered =>
                  (calls[c].res = "Timeout" /\ calls[c].elapsed >= LoginTimeout)

\* a Login parked in its select returns
LoginReturns ==
    \A c \in Calls :
        (calls[c].op = "Login" /\ calls[c].pc = "waiting") ~>
            calls[c].pc = "done"

\* C6: Login blocks its caller until its handler has fired or 5 s have
\* passed.  It returns success only when a LOGIN_ACCEPT frame has been
\* dispatched and the session is logged in; a Login during which no
\* LOGIN_ACCEPT arrives returns its timeout error, and not before 5 s.
C6_LoginAcceptOrTimeout == []LoginAcceptOrTimeout /\ LoginReturns

\* a Login has returned success, and another has timed out after 5 s
C6_Witness ==
    /\ \E c \in Calls :
          /\ calls[c].op = "Login"
          /\ calls[c].pc = "done"
          /\ calls[c].res = "OK"
          /\ isLoggedIn
    /\ \E c \in Calls :
          /\ calls[c].op = "Login"
          /\ calls[c].pc = "done"
          /\ calls[c].res = "Timeout"
          /\ calls[c].elapsed = LoginTimeout
          /\ ~calls[c].answered

\* C7: a Login during whose wait the camera signals rejection (and no
\* acceptance) returns the rejection error, and the session stays not
\* logged in.
C7_LoginRejected ==
    \A c \in Calls :
        (/\ calls[c].op = "Login"
         /\ calls[c].pc = "done"
         /\ calls[c].rejected
         /\ ~calls[c].answered) =>
            (calls[c].res = "Rejected" /\ ~isLoggedIn)

\* the session has a connection and has not been disconnected: Disconnect
\* was not called and the receive loop has not ended
SessionUp ==
    /\ conn = "open"
    /\ ~disconnect
    /\ rl.pc \notin {"off", "stopped"}

\* C28: IsConnected returns true from the moment Connect has established
\* the connection until Disconnect is called or the receive loop ends, and
\* false before and afterwards.
C28_IsConnected == IsConnected <=> SessionUp

\* C30: the receive loop does not stay blocked inside a handler: it is never
\* in a channel send to a caller that has returned already, a send nobody
\* will ever receive.
C30_LoopNeverStuck ==
    ~(/\ rl.pc = "sending"
      /\ calls[SendingTo].pc = "done")

----------------------------------------------------------------------------
(* SpecPrompt: logins only, on a session where nothing is slow.  Time      *)
(* passes only while the receive loop and the callers have no step to      *)
(* take, and a frame arrives strictly inside or outside a caller's window, *)
(* so a call that times out was not kept waiting by scheduling.            *)

\* the receive loop is parked: in its read with nothing to read, or in a
\* channel send nobody receives
LoopParked ==
    /\ rl.pc \notin {"run", "assign"}
    /\ rl.pc = "read" => rx = <<>>

\* no caller is between registering its handler and its select
CallersParked == \A c \in Calls : calls[c].pc # "registered"

\* no timer has fired whose caller has yet to return
TimersParked ==
    \A c \in Calls :
        calls[c].pc = "waiting" => ~Expired(calls[c].op, calls[c].elapsed)

LoginStarts == \E c \in Calls : Invoke(c, "Login")
AcceptArrives ==
    /\ nframes < MaxFrames
    /\ TimersParked
    /\ PeerSend(LOGIN_ACCEPT, <<>>)
PromptTick == LoopParked /\ CallersParked /\ Tick

PromptNext ==
    \/ Connect
    \/ LoginStarts
    \/ CallSends
    \/ AcceptArrives
    \/ RLRead
    \/ RLInvoke
    \/ RLAssign
    \/ PromptTick
    \/ CallTimesOut

SpecPrompt == Init /\ [][PromptNext]_vars

\* C8: a Login called after an earlier Login returned its timeout error,
\* and whose LOGIN_ACCEPT frame arrives before it returns, returns success.
C8_RetrySucceeds ==
    \A c \in Calls :
        (/\ calls[c].op = "Login"
         /\ calls[c].retry
         /\ calls[c].pc = "done"
         /\ calls[c].answered) =>
            calls[c].res = "OK"

----------------------------------------------------------------------------
(* SpecHandlers: the handler table under dispatch.  The library's user     *)
(* registers handlers of its own, each returning a fixed (remove, error),  *)
(* at any moment, and the camera sends frames of the types they are for.   *)

HandlerTypes == {ALIVE_REQUEST, PICTURE_SAVED}

UserRegisters ==
    \E messageType \in HandlerTypes, remove \in BOOLEAN, err \in BOOLEAN,
       first \in BOOLEAN :
        UserHandle(messageType, remove, err, first)

FrameArrives ==
    /\ nframes < MaxDispatches
    /\ \E messageType \in HandlerTypes : PeerSend(messageType, <<>>)

HandlersNext ==
    \/ Connect
    \/ UserRegisters
    \/ FrameArrives
    \/ RLRead
    \/ RLInvoke
    \/ RLAssign

SpecHandlers == Init /\ [][HandlersNext]_vars

\* the loop is dispatching a message of type t
Dispatching(t) ==
    /\ rl.pc \in {"run", "sending", "assign"}
    /\ rl.msg.header.MessageType = t

\* the handler registered as number n is in the table
InTable(n) ==
    \E i \in 1..Len(messageHandlers[handlerLog[n].type]) :
        messageHandlers[handlerLog[n].type][i].seq = n

\* The life of handler n as far as the messages of its type read so far:
\* one that returns RemoveHandler has been invoked once, for the first of
\* them, and is gone from the table; one that returns KeepHandler has been
\* invoked for each of them and is in the table.
Lifecycle(n) ==
    LET e == handlerLog[n]
    IN  IF e.h.remove = RemoveHandler
        THEN /\ e.invoked = Min(e.offered, 1)
             /\ e.offered >= 1 => ~InTable(n)
        ELSE /\ e.invoked = e.offered
             /\ InTable(n)

Before(a, b) ==
    IF a.first
    THEN b.first => a.seq > b.seq
    ELSE ~b.first /\ a.seq < b.seq

InOrder(hs) ==
    \A i, j \in 1..Len(hs) : i < j => Before(hs[i], hs[j])

\* C10: the handlers of a type are invoked in the order of their
\* registration, a handler registered with HandleFirst before those already
\* registered; the handlers kept stay in that order.  The list for every
\* type is in that order, and the handlers invoked for a message are an
\* initial part of the list that was found for it.
C10_RegistrationOrder ==
    /\ \A t \in HandledTypes : InOrder(messageHandlers[t])
    /\ InOrder(rl.hs)
    /\ InOrder(rl.remaining)
    /\ InOrder([i \in 1..Len(ran) |-> handlerLog[ran[i]].h])
    /\ rl.pc \in {"run", "sending", "assign"} =>
          /\ Len(ran) <= Len(rl.hs)
          /\ \A i \in 1..Len(ran) : ran[i] = rl.hs[i].seq

\* for its second message at least, a type's three handlers have been
\* invoked: one registered with HandleFirst after the one invoked next was
\* registered, then two in the order of their registration
C10_Witness ==
    /\ Len(ran) = 3
    /\ handlerLog[ran[1]].h.first
    /\ ran[1] > ran[2]
    /\ ran[2] < ran[3]
    /\ \A i \in 1..3 : handlerLog[ran[i]].invoked >= 2

----------------------------------------------------------------------------
(* SpecAlive: keep-alive.  Logins, and a camera that sends LOGIN_ACCEPT    *)
(* and ALIVE_REQUEST frames; time passes, and every goroutine is scheduled *)

AliveFrames ==
    /\ nframes < MaxFrames
    /\ \E t \in {LOGIN_ACCEPT, ALIVE_REQUEST} : PeerSend(t, <<>>)

AliveNext ==
    \/ Connect
    \/ LoginStarts
    \/ CallSends
    \/ AliveFrames
    \/ RLRead
    \/ RLInvoke
    \/ RLAssign
    \/ Tick
    \/ CallTimesOut

SpecAlive ==
    /\ Init /\ [][AliveNext]_vars
    /\ WF_vars(Tick) /\ WF_vars(CallTimesOut)
    /\ WF_vars(RLRead) /\ WF_vars(RLInvoke) /\ WF_vars(RLAssign)
    /\ WF_vars(CallSends)

\* the ALIVE_REQUEST frames the loop has read since Connect
AliveRequestsRead ==
    IF \E n \in DOMAIN handlerLog : handlerLog[n].h.kind = "alive"
    THEN handlerLog[CHOOSE n \in DOMAIN handlerLog :
                       handlerLog[n].h.kind = "alive"].offered
    ELSE 0

\* the ALIVE_REQUEST frames that have arrived on the connection since
\* Connect: those read, and the one waiting to be read
AliveRequestsReceived ==
    AliveRequestsRead +
    (IF Len(rx) >= 8 /\ BigEndian(SubSeq(rx, 5, 8)) = ALIVE_REQUEST
     THEN 1 ELSE 0)

\* the packets written so far that carry the ALIVE_RESPONSE type
AliveResponses ==
    {i \in 1..Len(tx) : BigEndian(SubSeq(tx[i], 5, 8)) = ALIVE_RESPONSE}

\* the keep-alive handler is in the table
AliveRegistered ==
    \E i \in 1..Len(messageHandlers[ALIVE_REQUEST]) :
        messageHandlers[ALIVE_REQUEST][i].kind = "alive"

\* no ALIVE_REQUEST has more than one answer, every answer is the eight
\* bytes of an ALIVE_RESPONSE header with length 0, and the keep-alive
\* handler is registered whenever the loop is not dispatching to it
OneAnswerEach ==
    /\ Cardinality(AliveResponses) <= AliveRequestsRead
    /\ \A i \in AliveResponses : tx[i] = CreateCommandPacket(ALIVE_RESPONSE)
    /\ (conn # "nil" /\ ~Dispatching(ALIVE_REQUEST)) => AliveRegistered

\* C11: after Connect every ALIVE_REQUEST frame received is eventually
\* answered with exactly one ALIVE_RESPONSE frame without payload, whatever
\* commands, logins, timeouts and frames come in between, and the keep-alive
\* handler is registered after each answer.
C11_KeepAliveAnswered ==
    /\ []OneAnswerEach
    /\ \A k \in 1..MaxFrames :
          (AliveRequestsReceived >= k) ~> (Cardinality(AliveResponses) >= k)

----------------------------------------------------------------------------
(* SpecFraming: the receive loop on a byte stream that need not be made of *)
(* well-formed frames, and that the camera may end                         *)

MaxWrites == 3      \* writes of the camera in one behaviour of SpecFraming

\* a frame with the magic of the preview stream instead of 0xABCD
WrongMagicFrame ==
    CreatePacket([Magic |-> 48350, Length |-> 0, MessageType |-> ALIVE_REQUEST],
                 <<>>)

\* a frame whose header declares two payload bytes, cut after the first
TruncatedFrame ==
    SubSeq(CreatePacket(CreateCommandHeader(ALIVE_REQUEST), <<1, 2>>), 1, 9)

WireChunks ==
    {CreateCommandPacket(ALIVE_REQUEST), CreateCommandPacket(PICTURE_SAVED),
     WrongMagicFrame, TruncatedFrame}

WireBytes ==
    /\ nframes < MaxWrites
    /\ \E bytes \in WireChunks : PeerWrite(bytes)

FramingRegisters ==
    \E remove \in BOOLEAN : UserHandle(PICTURE_SAVED, remove, FALSE, FALSE)

FramingNext ==
    \/ Connect
    \/ FramingRegisters
    \/ WireBytes
    \/ PeerClose
    \/ RLRead
    \/ RLInvoke
    \/ RLAssign

SpecFraming == Init /\ [][FramingNext]_vars

\* the loop is about to decode a frame with a wrong magic, or one whose
\* payload ends before its declared length
AtBadFrame ==
    /\ rl.pc = "read"
    /\ conn = "open"
    /\ FrameReady
    /\ ReadMessage(rx).status \in {"magic", "short"}

\* no handler is invoked in the step
NoneInvoked ==
    \A n \in DOMAIN handlerLog :
        handlerLog'[n].invoked = handlerLog[n].invoked

\* no byte is taken from the connection in the step
NoneRead ==
    /\ Len(rx') >= Len(rx)
    /\ SubSeq(rx', 1, Len(rx)) = rx

\* C12: when the receive loop decodes a frame whose magic is not 0xABCD, or
\* whose payload is shorter than its declared length, it invokes no handler
\* for the frame and stops, marking the session disconnected; once stopped
\* it dispatches no later frame.
C12_FramingErrorStops ==
    [][/\ (AtBadFrame /\ rl' # rl) =>
             (rl'.pc = "stopped" /\ ~connected' /\ NoneInvoked /\ rx' = rx)
       /\ rl.pc = "stopped" =>
             (rl'.pc = "stopped" /\ ~connected' /\ NoneInvoked /\ NoneRead)]_vars

\* the loop has stopped at a frame with a wrong magic after dispatching a
\* frame, and a well-formed frame that arrived later is left unread
C12_Witness ==
    /\ rl.pc = "stopped"
    /\ ~connected
    /\ ReadMessage(rx).status = "magic"
    /\ Len(rx) = 16
    /\ ReadMessage(SubSeq(rx, 9, 16)).status = "ok"
    /\ Len(tx) = 1

----------------------------------------------------------------------------
(* SpecFileList: parseFileList applied to listings drawn from bounded sets *)

MaxSegments == 2    \* segments of a listing

\* The segments listings are made of.  text is the segment as the camera
\* writes it; claimed is the entry a segment "path:size" with a nonempty
\* path and a decimal size above zero is to give, ZeroFile for any other
\* segment; fits says that the size is no more than 2^64 - 1.
Segments ==
    {[text |-> <<47, 97, 46, 109, 112, 52, 58, 49, 48, 48, 48>>,
      claimed |-> [Path |-> <<47, 97, 46, 109, 112, 52>>, Size |-> <<1, 0, 0, 0>>], fits |-> TRUE],
     [text |-> <<47, 98, 46, 109, 112, 52, 58, 50, 48, 48, 48>>,
      claimed |-> [Path |-> <<47, 98, 46, 109, 112, 52>>, Size |-> <<2, 0, 0, 0>>], fits |-> TRUE],
     [text |-> <<47, 97, 46, 109, 112, 52, 58, 48>>,
      claimed |-> ZeroFile, fits |-> TRUE],
     [text |-> <<97, 58, 48, 48, 55>>,
      claimed |-> [Path |-> <<97>>, Size |-> <<7>>], fits |-> TRUE],
     [text |-> <<97, 58, 120, 49>>,
      claimed |-> ZeroFile, fits |-> TRUE],
     [text |-> <<97, 58, 43, 49>>,
      claimed |-> ZeroFile, fits |-> TRUE],
     [text |-> <<97, 58>>,
      claimed |-> ZeroFile, fits |-> TRUE],
     [text |-> <<58, 53>>,
      claimed |-> ZeroFile, fits |-> TRUE],
     [text |-> <<97>>,
      claimed |-> ZeroFile, fits |-> TRUE],
     [text |-> <<97, 58, 49, 58, 50>>,
      claimed |-> ZeroFile, fits |-> TRUE],
     [text |-> <<>>,
      claimed |-> ZeroFile, fits |-> TRUE],
     [text |-> <<97, 58, 49, 56, 52, 52, 54, 55, 52, 52, 48, 55, 51, 55, 48, 57, 53, 53, 49, 54, 49, 53>>,
      claimed |-> [Path |-> <<97>>, Size |-> <<1, 8, 4, 4, 6, 7, 4, 4, 0, 7, 3, 7, 0, 9, 5, 5, 1, 6, 1, 5>>], fits |-> TRUE],
     [text |-> <<97, 58, 49, 56, 52, 52, 54, 55, 52, 52, 48, 55, 51, 55, 48, 57, 53, 53, 49, 54, 49, 54>>,
      claimed |-> [Path |-> <<97>>, Size |-> <<1, 8, 4, 4, 6, 7, 4, 4, 0, 7, 3, 7, 0, 9, 5, 5, 1, 6, 1, 6>>], fits |-> FALSE]}

\* the text of a listing: its segments, each followed by ';' (the last one
\* only if the listing is terminated)
RECURSIVE ListingText(_, _)
ListingText(segs, terminated) ==
    IF Len(segs) = 0 THEN <<>>
    ELSE IF Len(segs) = 1
    THEN segs[1].text \o (IF terminated THEN <<59>> ELSE <<>>)
    ELSE segs[1].text \o <<59>> \o ListingText(Tail(segs), terminated)

ListInit ==
    /\ CodecIdle
    /\ CamInit
    /\ RelayIdle
    /\ ServerIdle
    /\ listPc = "input"
    /\ listInput \in {[segs |-> q, terminated |-> t] :
                        q \in SeqsUpTo(Segments, MaxSegments), t \in BOOLEAN}
    /\ listResult = <<>>

\* stored := parseFileList(input)
ListParse ==
    /\ listPc = "input"
    /\ listResult' = parseFileList(ListingText(listInput.segs, listInput.terminated))
    /\ listPc' = "parsed"
    /\ UNCHANGED <<listInput, codecVars, camVars, relayVars, serverVars>>

ListNext == ListParse

SpecFileList == ListInit /\ [][ListNext]_vars

\* parseFileList has returned for a listing whose segments are all
\* terminated by ';'
ParsedTerminated ==
    /\ listPc = "parsed"
    /\ listInput.terminated \/ Len(listInput.segs) = 0

\* C13 as stated: one entry per segment, in segment order; the path and the
\* size for a segment "path:size" with a nonempty path and a decimal size
\* above zero, the placeholder for any other segment.
C13_EntryPerSegmentAnySize ==
    ParsedTerminated =>
        /\ ~listResult.panic
        /\ Len(listResult.stored) = Len(listInput.segs)
        /\ \A i \in 1..Len(listInput.segs) :
              listResult.stored[i] = listInput.segs[i].claimed

\* C13: one entry per segment, in segment order; the path and the size for a
\* segment "path:size" with a nonempty path and a decimal size above zero and
\* no more than 2^64 - 1, the placeholder for any other segment.
C13_EntryPerSegment ==
    ParsedTerminated =>
        /\ ~listResult.panic
        /\ Len(listResult.stored) = Len(listInput.segs)
        /\ \A i \in 1..Len(listInput.segs) :
              listResult.stored[i] =
                  IF listInput.segs[i].fits THEN listInput.segs[i].claimed
                  ELSE ZeroFile

\* "/a.mp4:0;/b.mp4:2000;" has given the placeholder and then /b.mp4 with
\* its size
C13_Witness ==
    /\ ParsedTerminated
    /\ Len(listInput.segs) = 2
    /\ listInput.segs[1].claimed = ZeroFile
    /\ listInput.segs[1].text # <<>>
    /\ listResult.stored[1] = ZeroFile
    /\ listResult.stored[2] # ZeroFile
    /\ listResult.stored[2] = listInput.segs[2].claimed

----------------------------------------------------------------------------
(* SpecListing: GetFileList and the parts of a listing                     *)

MaxParts == 3       \* frames the camera sends in one behaviour of SpecListing

\* the payload of a FILE_LIST_CONTENT frame: totalParts and partIndex as
\* little-endian uint32, then the chunk of text
Part(totalParts, partIndex, chunk) ==
    <<totalParts, 0, 0, 0>> \o <<partIndex, 0, 0, 0>> \o chunk

\* "/a:1;" and "/b:2;" in two parts, "/a:1;/b:2;" cut inside a segment, a
\* listing of one part, and one of one part that lacks its last ';'
ListingParts ==
    {Part(2, 0, <<47, 97, 58, 49, 59>>), Part(2, 1, <<47, 98, 58, 50, 59>>),
     Part(2, 0, <<47, 97, 58, 49, 59, 47, 98>>), Part(2, 1, <<58, 50, 59>>),
     Part(1, 0, <<47, 97, 58, 49, 59>>), Part(1, 0, <<47, 97, 58, 49>>)}

ListStarts == \E c \in Calls : Invoke(c, "GetFileList")

PartArrives ==
    /\ nframes < MaxParts
    /\ \E payload \in ListingParts : PeerSend(FILE_LIST_CONTENT, payload)

ListingNext ==
    \/ Connect
    \/ ListStarts
    \/ CallSends
    \/ PartArrives
    \/ RLRead
    \/ RLInvoke
    \/ RLAssign
    \/ Tick
    \/ CallTimesOut

SpecListing == Init /\ [][ListingNext]_vars

\* the handler GetFileList registered for call c
ListHandlerOf(c) ==
    CHOOSE n \in DOMAIN handlerLog :
        handlerLog[n].h.kind = "filelist" /\ handlerLog[n].h.call = c

\* the frame with this payload is the last of its listing
IsLastPart(payload) ==
    LittleEndian(SubSeq(payload, 5, 8)) + 1 >= LittleEndian(SubSeq(payload, 1, 4))

\* the chunks of the payloads, one after the other
RECURSIVE Chunks(_)
Chunks(payloads) ==
    IF Len(payloads) = 0 THEN <<>>
    ELSE SubSeq(payloads[1], 9, Len(payloads[1])) \o Chunks(Tail(payloads))

\* the index of the first last part among the payloads, 0 if there is none
FirstLastPart(payloads) ==
    IF \E k \in 1..Len(payloads) : IsLastPart(payloads[k])
    THEN CHOOSE k \in 1..Len(payloads) :
            /\ IsLastPart(payloads[k])
            /\ \A j \in 1..(k - 1) : ~IsLastPart(payloads[j])
    ELSE 0

\* What has become of the GetFileList call c and of its handler n, given the
\* frames read since the handler was registered.  Before a last part: the
\* handler is registered, was invoked for every frame and holds their chunks
\* in order.  From the first last part on: the handler was invoked up to that
\* frame and is gone, and the parsed listing went once to the caller, or to
\* the channel of a caller that had timed out.
ListAssembled(c, n) ==
    LET payloads == handlerLog[n].seen
        k == FirstLastPart(payloads)
        listing == parseFileList(Chunks(SubSeq(payloads, 1, k)))
    IN  IF k = 0
        THEN /\ InTable(n)
             /\ handlerLog[n].invoked = Len(payloads)
             /\ calls[c].data = Chunks(payloads)
             /\ calls[c].res # "OK"
             /\ calls[c].ch = <<>>
        ELSE /\ ~InTable(n)
             /\ handlerLog[n].invoked = k
             /\ ~listing.panic
             /\ \/ /\ calls[c].res = "OK"
                   /\ calls[c].value = FilesValue(listing.stored)
                   /\ calls[c].ch = <<>>
                \/ /\ calls[c].res = "Timeout"
                   /\ calls[c].ch = <<FilesValue(listing.stored)>>

\* C14: the chunks of the FILE_LIST_CONTENT frames received for a GetFileList
\* are concatenated in arrival order; the handler stays registered after
\* every frame that is not the last part, and on the first last part the
\* assembled text is parsed, the result delivered once, and the handler
\* removed.  Stated of the handlers registered while no FILE_LIST_CONTENT
\* frame was being dispatched, once a dispatch has ended.
C14_ListAssembled ==
    \A c \in Calls :
        (/\ calls[c].op = "GetFileList"
         /\ calls[c].pc \in {"waiting", "done"}
         /\ ~handlerLog[ListHandlerOf(c)].racy
         /\ ~Dispatching(FILE_LIST_CONTENT) \/ crashed) =>
            ListAssembled(c, ListHandlerOf(c))

----------------------------------------------------------------------------
(* SpecRelay: one relay and the fragments the camera streams to it         *)

\* a datagram of the live stream: the 8-byte header and the payload
StreamPacket(magic, messageType, payload) ==
    WriteBits(magic, 16) \o WriteBits(Len(payload), 16) \o WriteBits(0, 16)
        \o WriteBits(messageType, 16) \o payload

DataFragment(payload) == StreamPacket(StreamMagic, StreamData, payload)

\* a boundary fragment whose elapsed counter has these four bytes
BoundaryFragment(elapsedBytes) ==
    StreamPacket(StreamMagic, StreamTime, ZeroBytes(ElapsedOffset) \o elapsedBytes)

\* elapsed = 100, 200 and 2^32 - 1
ElapsedValues == {<<100, 0, 0, 0>>, <<200, 0, 0, 0>>, <<255, 255, 255, 255>>}

BadMagicFragment == StreamPacket(ControlMagic, StreamData, <<5>>)

StreamDatagrams ==
    {DataFragment(<<7>>), DataFragment(<<8, 9>>)}
        \cup {BoundaryFragment(e) : e \in ElapsedValues}
        \cup {StreamPacket(StreamMagic, StreamTime, ZeroBytes(ElapsedOffset)),
              StreamPacket(StreamMagic, 3, <<6>>),
              BadMagicFragment}

RelayCreated == CreateRTPRelay(1, LocalTarget.ip, LocalTarget.port)
RelayLoops == LoopTop(1)
CameraStreams ==
    /\ ndatagrams < MaxDatagrams
    /\ \E d \in StreamDatagrams : ReadDatagram(1, d)
\* the deadline passes MaxReadErrors times at most, so that the buffers stay
\* bounded
RelayReadTimesOut ==
    /\ relays[1].readErrors < MaxReadErrors
    /\ ReadTimesOut(1)
RelayReadOnClosed == ReadOnClosed(1)
RelayStops == Stop(1)
RelayCancelled == CancelContext(1)

RelayNext ==
    \/ RelayCreated
    \/ RelayLoops
    \/ CameraStreams
    \/ RelayReadTimesOut
    \/ RelayReadOnClosed
    \/ RelayStops
    \/ RelayCancelled

SpecRelay == Init /\ [][RelayNext]_vars

\* the header of the datagram carries the stream magic
MagicOk(datagram) == ReadStreamHeader(datagram).Magic = StreamMagic

\* the datagram is a boundary fragment
IsBoundary(datagram) ==
    /\ MagicOk(datagram)
    /\ ReadStreamHeader(datagram).MessageType = StreamTime

\* the byte strings one after the other
RECURSIVE Concat(_)
Concat(ss) == IF Len(ss) = 0 THEN <<>> ELSE ss[1] \o Concat(Tail(ss))

\* how many of the datagrams relay r has received are boundary fragments
BoundariesReceived(r) ==
    Cardinality({k \in 1..Len(relays[r].received) : IsBoundary(relays[r].received[k])})

\* the packet is a 16-byte header, marker first and zero trailer last,
\* followed by these data
WellFormedPacket(packet, data) ==
    /\ Len(packet) >= 16
    /\ SubSeq(packet, 1, 2) = <<128, 99>>
    /\ SubSeq(packet, 9, 16) = ZeroBytes(TrailerLen)
    /\ SubSeq(packet, 17, Len(packet)) = data

\* C15: the relay has emitted one packet per boundary fragment received;
\* every emitted packet, the first included, is the marker 0x80 0x63, two
\* bytes of sequence number, four of timestamp and eight zero bytes, followed
\* by the payloads, in arrival order, of the data fragments received since
\* the previous boundary; and the frame buffer is empty after an emission.
C15_OnePacketPerFrame ==
    \A r \in Relays :
        /\ Len(relays[r].sent) = BoundariesReceived(r)
        /\ \A i \in 1..Len(relays[r].sent) :
              WellFormedPacket(relays[r].sent[i], Concat(relays[r].log[i].data))
        /\ (relays[r].sent # <<>> /\ relays[r].pending = <<>>) =>
              relays[r].frameBuffer = <<>>

\* the packet starts with the 16-byte header
HasHeader(packet) == Len(packet) >= 16 /\ SubSeq(packet, 1, 2) = <<128, 99>>

\* C16: the timestamp field of an emitted packet is elapsed * 90 modulo 2^32,
\* elapsed being the little-endian counter at bytes 12..15 of the payload of
\* the boundary fragment the packet was emitted for.  Stated of the packets
\* that carry a header.
C16_TimestampOfTrigger ==
    \A r \in Relays : \A i \in 1..Len(relays[r].sent) :
        LET packet == relays[r].sent[i]
            trigger == relays[r].log[i].trigger
        IN  (HasHeader(packet) /\ Len(trigger) >= ElapsedOffset + 4) =>
                SubSeq(packet, 5, 8) =
                    Times90(Uint32LE(SubSeq(trigger, ElapsedOffset + 1,
                                            ElapsedOffset + 4)))

\* the sequence number field of a packet
SequenceNumberOf(packet) == BigEndian(SubSeq(packet, 3, 4))

\* C17: the first packet a relay emits carries the sequence number 1, and
\* every later one carries one more than the packet before it.
C17_SequenceNumbers ==
    \A r \in Relays : \A i \in 1..Len(relays[r].sent) :
        /\ HasHeader(relays[r].sent[i])
        /\ SequenceNumberOf(relays[r].sent[i]) =
              IF i = 1 THEN 1
              ELSE SequenceNumberOf(relays[r].sent[i - 1]) + 1

\* C20: a datagram whose magic is not 0xBCDE ends the relay loop: it is the
\* last datagram the relay reads.
C20_BadMagicTerminates ==
    \A r \in Relays : \A k \in 1..Len(relays[r].received) :
        ~MagicOk(relays[r].received[k]) =>
            /\ relays[r].pc = "ended"
            /\ k = Len(relays[r].received)

----------------------------------------------------------------------------
(* SpecRelays: relay instances created, stopped and cancelled at any       *)
(* moment, the camera silent                                               *)

RelaysCreate == \E r \in Relays : CreateRTPRelay(r, LocalTarget.ip, LocalTarget.port)
RelaysStop == \E r \in Relays : Stop(r)
RelaysCancel == \E r \in Relays : CancelContext(r)
RelaysLoop == \E r \in Relays : LoopTop(r)
RelaysReadTimesOut == \E r \in Relays : ReadTimesOut(r)
RelaysReadOnClosed == \E r \in Relays : ReadOnClosed(r)

RelaysNext ==
    \/ RelaysCreate
    \/ RelaysStop
    \/ RelaysCancel
    \/ RelaysLoop
    \/ RelaysReadTimesOut
    \/ RelaysReadOnClosed

SpecRelays == Init /\ [][RelaysNext]_vars

\* every loop goroutine gets to run, and a read on a closed socket returns
SpecRelaysFair ==
    /\ SpecRelays
    /\ \A r \in Relays : WF_vars(LoopTop(r)) /\ WF_vars(ReadOnClosed(r))

\* Stop has been called on relay r
StopRequested(r) == relays[r].stops > 0

\* the loop of relay r has ended and both its sockets are closed
Terminated(r) ==
    /\ relays[r].pc = "ended"
    /\ relays[r].listener = "closed"
    /\ relays[r].rtpConn = "closed"

\* a call of Stop on a relay that was stopped before changes nothing
StopAgainNoOp ==
    \A r \in Relays :
        (StopRequested(r) /\ Stop(r)) =>
            /\ close' = close
            /\ \A q \in Relays :
                  relays'[q] = [relays[q] EXCEPT !.stops = relays'[q].stops]

\* C18: once Stop has been called on a relay, its loop eventually ends with
\* its listener and its outbound socket closed; and a further call of Stop
\* on that relay neither fails nor changes any state.
C18_StopTerminates ==
    /\ \A r \in Relays : StopRequested(r) ~> Terminated(r)
    /\ [][StopAgainNoOp]_vars

\* SpecRelaysFair with the read deadline passing whenever a read is pending
SpecRelaysTimed ==
    /\ SpecRelaysFair
    /\ \A r \in Relays : WF_vars(ReadTimesOut(r))

\* the loop of relay r is running
Running(r) == relays[r].pc \in {"top", "read"}

\* C21: with a camera that sends nothing, so that the read deadline passes
\* again and again, the loop of a relay ends, unless Stop is called, the
\* context is cancelled or the process dies first.
C21_SilenceTerminates ==
    \A r \in Relays :
        Running(r) ~> \/ relays[r].pc = "ended"
                      \/ StopRequested(r)
                      \/ relays[r].done
                      \/ RelayPanicked

\* C19: the stop flag belongs to one relay instance.  A loop that ended on
\* the stop flag is the loop of a relay Stop was called on, and a relay Stop
\* was called on finds its stop flag set for as long as its loop runs,
\* whatever relays are created meanwhile.
C19_StopScoped ==
    \A r \in Relays :
        /\ relays[r].endedBy = "close" => StopRequested(r)
        /\ (StopRequested(r) /\ relays[r].pc \in {"top", "read"}) => StopFlag(r)

----------------------------------------------------------------------------
(* SpecServer: the rtsp command of src/actioncam.go.  The camera is        *)
(* connected and Login has returned, with or without success, before the   *)
(* server listens; clients then connect and a handleClient goroutine reads *)
(* the lines of a request and the blank line after them.  The relays'      *)
(* sockets stay silent.                                                    *)

\* "OPTIONS u RTSP/1.0" / "CSeq: 1"
OptionsRequest ==
    <<<<79, 80, 84, 73, 79, 78, 83, 32, 117, 32, 82, 84, 83, 80, 47, 49, 46, 48>>,
      <<67, 83, 101, 113, 58, 32, 49>>>>

\* "SETUP u RTSP/1.0" / "CSeq: 2" / "Transport: RTP/AVP;unicast;client_port=5000-5001"
SetupRequest ==
    <<<<83, 69, 84, 85, 80, 32, 117, 32, 82, 84, 83, 80, 47, 49, 46, 48>>,
      <<67, 83, 101, 113, 58, 32, 50>>,
      <<84, 114, 97, 110, 115, 112, 111, 114, 116, 58, 32, 82, 84, 80, 47, 65, 86, 80, 59, 117, 110, 105, 99, 97, 115, 116, 59, 99, 108, 105, 101, 110, 116, 95, 112, 111, 114, 116, 61, 53, 48, 48, 48, 45, 53, 48, 48, 49>>>>

\* "SETUP u RTSP/1.0" / "CSeq: 2"
SetupNoTransport ==
    <<<<83, 69, 84, 85, 80, 32, 117, 32, 82, 84, 83, 80, 47, 49, 46, 48>>,
      <<67, 83, 101, 113, 58, 32, 50>>>>

\* "SETUP u RTSP/1.0" / "CSeq: 2" / "Transport: RTP/AVP;unicast"
SetupNoEquals ==
    <<<<83, 69, 84, 85, 80, 32, 117, 32, 82, 84, 83, 80, 47, 49, 46, 48>>,
      <<67, 83, 101, 113, 58, 32, 50>>,
      <<84, 114, 97, 110, 115, 112, 111, 114, 116, 58, 32, 82, 84, 80, 47, 65, 86, 80, 59, 117, 110, 105, 99, 97, 115, 116>>>>

\* "SETUP u RTSP/1.0" / "CSeq: 2" / "Transport: RTP/AVP;unicast;client_port=x-y"
SetupNotNumeric ==
    <<<<83, 69, 84, 85, 80, 32, 117, 32, 82, 84, 83, 80, 47, 49, 46, 48>>,
      <<67, 83, 101, 113, 58, 32, 50>>,
      <<84, 114, 97, 110, 115, 112, 111, 114, 116, 58, 32, 82, 84, 80, 47, 65, 86, 80, 59, 117, 110, 105, 99, 97, 115, 116, 59, 99, 108, 105, 101, 110, 116, 95, 112, 111, 114, 116, 61, 120, 45, 121>>>>

\* "SETUP u RTSP/1.0" / "CSeq: 2" / "Transport: RTP/AVP;client_port=5000-5001;ssrc=7"
SetupPortNotLast ==
    <<<<83, 69, 84, 85, 80, 32, 117, 32, 82, 84, 83, 80, 47, 49, 46, 48>>,
      <<67, 83, 101, 113, 58, 32, 50>>,
      <<84, 114, 97, 110, 115, 112, 111, 114, 116, 58, 32, 82, 84, 80, 47, 65, 86, 80, 59, 99, 108, 105, 101, 110, 116, 95, 112, 111, 114, 116, 61, 53, 48, 48, 48, 45, 53, 48, 48, 49, 59, 115, 115, 114, 99, 61, 55>>>>

\* "PLAY u RTSP/1.0" / "CSeq: 3"
PlayRequest ==
    <<<<80, 76, 65, 89, 32, 117, 32, 82, 84, 83, 80, 47, 49, 46, 48>>,
      <<67, 83, 101, 113, 58, 32, 51>>>>

\* "TEARDOWN u RTSP/1.0" / "CSeq: 4"
TeardownRequest ==
    <<<<84, 69, 65, 82, 68, 79, 87, 78, 32, 117, 32, 82, 84, 83, 80, 47, 49, 46, 48>>,
      <<67, 83, 101, 113, 58, 32, 52>>>>

\* "RECORD u RTSP/1.0" / "CSeq: 5"
RecordRequest ==
    <<<<82, 69, 67, 79, 82, 68, 32, 117, 32, 82, 84, 83, 80, 47, 49, 46, 48>>,
      <<67, 83, 101, 113, 58, 32, 53>>>>

\* "PAUSE u RTSP/1.0" / "CSeq: 6"
PauseRequest ==
    <<<<80, 65, 85, 83, 69, 32, 117, 32, 82, 84, 83, 80, 47, 49, 46, 48>>,
      <<67, 83, 101, 113, 58, 32, 54>>>>

\* "PLAY u" / "CSeq: 7"
TwoTokenRequest ==
    <<<<80, 76, 65, 89, 32, 117>>,
      <<67, 83, 101, 113, 58, 32, 55>>>>

\* "DESCRIBE u RTSP/1.0" / "CSeq: 8"
DescribeRequest ==
    <<<<68, 69, 83, 67, 82, 73, 66, 69, 32, 117, 32, 82, 84, 83, 80, 47, 49, 46, 48>>,
      <<67, 83, 101, 113, 58, 32, 56>>>>

\* a blank line with no line before it: handleClient passes an empty packet
BlankRequest == <<>>

ServerRequests ==
    {OptionsRequest, DescribeRequest, SetupRequest, SetupNoTransport,
     SetupNoEquals, SetupNotNumeric, SetupPortNotLast, PlayRequest,
     TeardownRequest, RecordRequest, PauseRequest, TwoTokenRequest,
     BlankRequest}

\* camera.Connect() and camera.Login() of connectAndLogin
ServerConnects == ~RelayPanicked /\ Connect
ServerLogsIn == ~RelayPanicked /\ conn = "open" /\ Invoke(1, "Login")
ServerCallSends == ~RelayPanicked /\ CallSends
ServerCallTimesOut == ~RelayPanicked /\ CallTimesOut
ServerLoopReads == ~RelayPanicked /\ RLRead
ServerLoopInvokes == ~RelayPanicked /\ RLInvoke
ServerLoopAssigns == ~RelayPanicked /\ RLAssign
ServerTick == ~RelayPanicked /\ PromptTick
LoginAccepted ==
    /\ ~RelayPanicked
    /\ calls[1].op = "Login"
    /\ AcceptArrives
RecordAccepted ==
    /\ ~RelayPanicked
    /\ \E c \in Calls : calls[c].op = "StartRecording" /\ calls[c].pc = "waiting"
    /\ nframes < MaxFrames
    /\ TimersParked
    /\ PeerSend(RECORD_COMMAND_ACCEPT, <<>>)

\* rtspServer.ListenAndServe() after connectAndLogin has returned
LoggedInOrNot == calls[1].pc = "done"
ServerListens == LoggedInOrNot /\ ListenAndServe
ServerListenFails == LoggedInOrNot /\ ListenFails
ServerAccepts == \E k \in Clients : Accept(k)
ClientRequests ==
    \E k \in Clients, packet \in ServerRequests :
        /\ nrequests < MaxRequests
        /\ HandleRequest(k, packet)
ClientRecordCalls == \E k \in Clients : RecordCalls(k)
ClientRecordReplies == \E k \in Clients : RecordReplies(k)
ServerRelayLoops == \E r \in Relays : ~crashed /\ LoopTop(r)
ServerRelayReadOnClosed == \E r \in Relays : ~crashed /\ ReadOnClosed(r)

ServerNext ==
    \/ ServerConnects
    \/ ServerLogsIn
    \/ ServerCallSends
    \/ ServerCallTimesOut
    \/ ServerLoopReads
    \/ ServerLoopInvokes
    \/ ServerLoopAssigns
    \/ ServerTick
    \/ LoginAccepted
    \/ RecordAccepted
    \/ ServerListens
    \/ ServerListenFails
    \/ AcceptSelect
    \/ ServerAccepts
    \/ ClientRequests
    \/ ClientRecordCalls
    \/ ClientRecordReplies
    \/ ServerRelayLoops
    \/ ServerRelayReadOnClosed

SpecServer == Init /\ [][ServerNext]_vars

\* the request handleRequest is called with in this step, on the connection
\* of client k
Handles(k) == Len(clients'[k].packets) = Len(clients[k].packets) + 1
NewPacket(k) == clients'[k].packets[Len(clients'[k].packets)]

\* the method of a request, <<>> if its request line is not three tokens
MethodOf(packet) ==
    IF Len(packet) = 0 THEN <<>>
    ELSE IF Len(RequestLine(packet)) # 3 THEN <<>>
    ELSE RequestLine(packet)[1]

\* the n-th last request handled on the connection of client k, <<>> if
\* there were fewer
Earlier(k, n) ==
    IF Len(clients[k].packets) < n THEN <<>>
    ELSE clients[k].packets[Len(clients[k].packets) + 1 - n]

\* "client_port"
ClientPortKey == <<99, 108, 105, 101, 110, 116, 95, 112, 111, 114, 116>>

\* the client_port parameters of the Transport header of a request
ClientPortParams(packet) ==
    LET params == Split(HeaderValue(packet, KeyTransport), SEMICOLON)
    IN  {i \in 1..Len(params) :
            /\ Len(Split(params[i], EQUALS)) = 2
            /\ Split(params[i], EQUALS)[1] = ClientPortKey
            /\ ~ParseInt(Split(Split(params[i], EQUALS)[2], DASH)[1]).err}

\* the request is a SETUP whose Transport header has a client_port range
IsSetupWithPort(packet) ==
    /\ MethodOf(packet) = SETUP
    /\ ClientPortParams(packet) # {}

\* the port the client_port range of the request starts at
ClientPortOf(packet) ==
    LET params == Split(HeaderValue(packet, KeyTransport), SEMICOLON)
        i == CHOOSE j \in ClientPortParams(packet) : TRUE
    IN  ParseInt(Split(Split(params[i], EQUALS)[2], DASH)[1]).value

\* no other client has sent a request
Alone(k) == \A j \in Clients \ {k} : clients[j].packets = <<>>

StartPreviewSent == tx' = Append(tx, CreateCommandPacket(START_PREVIEW))

\* the steps of C22 on the connection of client k
SetupThenPlayThenTeardown(k) ==
    /\ IsSetupWithPort(NewPacket(k)) =>
          clients'[k].written = clients[k].written \o SetupReply(k, NewPacket(k))
    /\ (MethodOf(NewPacket(k)) = PLAY /\ IsSetupWithPort(Earlier(k, 1))) =>
          /\ clients'[k].written = clients[k].written \o PlayReply(k, NewPacket(k))
          /\ server'.rtpRelay # 0
          /\ relays[server'.rtpRelay].pc = "none"
          /\ relays'[server'.rtpRelay].pc = "top"
          /\ relays'[server'.rtpRelay].listener = "open"
          /\ relays'[server'.rtpRelay].targetPort = ClientPortOf(Earlier(k, 1))
          /\ relays'[server'.rtpRelay].targetIP = ClientIP(k)
          /\ StartPreviewSent
    /\ (/\ MethodOf(NewPacket(k)) = TEARDOWN
        /\ MethodOf(Earlier(k, 1)) = PLAY
        /\ IsSetupWithPort(Earlier(k, 2))) =>
          /\ clients'[k].written = clients[k].written \o TeardownReply(NewPacket(k))
          /\ server.rtpRelay # 0
          /\ relays'[server.rtpRelay].stops > 0
          /\ relays'[server.rtpRelay].listener = "closed"
          /\ ~crashed'

\* C22: on a connection that is the only one to send requests, a SETUP whose
\* Transport header has a client_port range starting at P is answered 200
\* with the Transport header and the session id; a PLAY right after it is
\* answered 200, a relay with an open listener is created whose target is
\* port P at the client's address, and the start-preview command is sent to
\* the camera; a TEARDOWN right after that is answered 200 and stops the
\* relay without failing.
C22_SetupPlayTeardown ==
    [][\A k \in Clients :
          (Handles(k) /\ Alone(k)) => SetupThenPlayThenTeardown(k)]_vars

\* the connection of client k has completed a SETUP: one of its requests
\* was a SETUP that was answered
SetupDone(k) ==
    \E i \in 1..Len(clients[k].packets) :
        LET packet == clients[k].packets[i]
            port == TransportPort(HeaderValue(packet, KeyTransport))
        IN  /\ MethodOf(packet) = SETUP
            /\ ~port.panic
            /\ ~port.err

\* C23: a PLAY on a connection that has not completed a SETUP creates no
\* relay and sends no start-preview command.
C23_PlayNeedsSetup ==
    [][\A k \in Clients :
          (Handles(k) /\ MethodOf(NewPacket(k)) = PLAY /\ ~SetupDone(k)) =>
              /\ relays' = relays
              /\ tx' = tx]_vars

\* no PLAY has created a relay
NoRelayCreated == \A r \in Relays : relays[r].pc = "none"

\* C24: a TEARDOWN received when no PLAY has created a relay stops nothing
\* and does not fail the connection's goroutine or the server.
C24_TeardownNeedsPlay ==
    [][\A k \in Clients :
          (Handles(k) /\ MethodOf(NewPacket(k)) = TEARDOWN /\ NoRelayCreated) =>
              /\ relays' = relays
              /\ close' = close
              /\ ~crashed'
              /\ clients'[k].pc = "idle"]_vars

\* relay r is active: its loop is running and Stop was not called on it
Active(r) == Running(r) /\ ~StopRequested(r)

\* C25: at most one relay is active.
C25_OneActiveRelay == Cardinality({r \in Relays : Active(r)}) <= 1

\* the methods handleRequest has a branch for
KnownMethods == {OPTIONS, DESCRIBE, SETUP, PLAY, RECORD, TEARDOWN}

WellFormedTransport(packet) ==
    LET params == Split(HeaderValue(packet, KeyTransport), SEMICOLON)
    IN  Len(params) \in ClientPortParams(packet)

\* C27: a SETUP whose Transport header is malformed (absent, last parameter
\* without '=', port not a number, client_port not the last parameter) is
\* dropped: nothing is written, the stored transport target stays, nothing
\* fails and the connection goes on to its next request.
C27_MalformedSetupDropped ==
    [][\A k \in Clients :
          (/\ Handles(k)
           /\ MethodOf(NewPacket(k)) = SETUP
           /\ ~WellFormedTransport(NewPacket(k))) =>
              /\ clients'[k].written = clients[k].written
              /\ server' = server
              /\ ~crashed'
              /\ clients'[k].pc = "idle"]_vars

----------------------------------------------------------------------------
(* SpecAccept: the accept loop of the rtsp command, with Stop called and   *)
(* the context cancelled from outside at any moment after ListenAndServe   *)
(* was called.  Clients connect and send nothing.                          *)

ServerStops == server.pc # "off" /\ ServerStop
ServerCancelled == LoggedInOrNot /\ ServerCancel

AcceptNext ==
    \/ ServerConnects
    \/ ServerLogsIn
    \/ ServerCallSends
    \/ ServerCallTimesOut
    \/ ServerLoopReads
    \/ ServerLoopInvokes
    \/ ServerLoopAssigns
    \/ ServerTick
    \/ LoginAccepted
    \/ ServerListens
    \/ ServerListenFails
    \/ AcceptSelect
    \/ ServerAccepts
    \/ AcceptFails
    \/ ServerStops
    \/ ServerCancelled

SpecAccept == Init /\ [][AcceptNext]_vars

\* Stop was called or the context was cancelled
StopOrCancel == server.stops > 0 \/ server.done

\* C29: once Stop was called on a listening server, or its context was
\* cancelled, the accept loop accepts no connection, starts no client
\* goroutine and does not fail.
C29_ServerStops ==
    (StopOrCancel /\ server.listener # "nil") =>
        /\ server.accepted = 0
        /\ server.pc # "panicked"
        /\ ~crashed

----------------------------------------------------------------------------
(* The handler table under concurrent registration                        *)

\* the registration numbers of the handlers in a list
SeqsOf(hs) == {hs[i].seq : i \in 1..Len(hs)}

\* the handlers registered for the type being dispatched since the loop
\* took its list
RegisteredMeanwhile ==
    SeqsOf(messageHandlers[rl.msg.header.MessageType]) \ SeqsOf(rl.hs)

\* the dispatch of a message finishes in this step
DispatchFinishes == rl.pc = "assign" /\ rl'.pc = "read"

\* C31: a handler registered for a type while the receive loop is
\* dispatching a message of that type is still in the table for the type
\* when that dispatch has finished.
C31_RegistrationKept ==
    [][DispatchFinishes =>
          RegisteredMeanwhile \subseteq
              SeqsOf(messageHandlers'[rl.msg.header.MessageType])]_vars

\* the handlers of a list that return KeepHandler
KeptOf(hs) == SelectSeq(hs, LAMBDA h : h.remove = KeepHandler)

\* the range loop of the dispatch that finishes was left by an error: the
\* handler invoked last returned one
Errored == rl.hs[rl.i].err \/ rl.i < Len(rl.hs)

BothCompleted(c, d) ==
    /\ c # d
    /\ calls[c].op \in Operations
    /\ calls[d].op \in Operations
    /\ Awaits(calls[c].op)
    /\ Awaits(calls[d].op)
    /\ ResponseType(calls[c].op) = ResponseType(calls[d].op)
    /\ calls[c].res = "OK"
    /\ calls[d].res = "OK"

WritesRequest(c) == ~calls[c].sent /\ calls'[c].sent

\* the handler call c registered is in the table, or it was invoked for a
\* frame that came before the request was written
HandlerInPlace(c) ==
    \E n \in DOMAIN handlerLog :
        /\ handlerLog[n].h.call = c
        /\ InTable(n) \/ handlerLog[n].invoked > 0

\* C34: an operation that awaits a response has registered its handler when
\* it writes its request frame, and the handler is in the table at that
\* moment (unless a frame of its type has been dispatched to it already);
\* StartPreviewStream writes its frame without registering a handler and
\* returns without waiting.
C34_HandlerBeforeRequest ==
    [][\A c \in Calls :
          WritesRequest(c) =>
              IF Awaits(calls'[c].op)
              THEN calls[c].registered /\ HandlerInPlace(c)
              ELSE /\ messageHandlers' = messageHandlers
                   /\ calls'[c].pc = "done"
                   /\ ~calls'[c].registered]_vars

\* the requests of client k that were SETUPs the server answered
OwnSetups(k) ==
    {i \in 1..Len(clients[k].packets) :
        LET port == TransportPort(HeaderValue(clients[k].packets[i], KeyTransport))
        IN  /\ MethodOf(clients[k].packets[i]) = SETUP
            /\ ~port.panic
            /\ ~port.err}

\* the port the last answered SETUP of client k negotiated
OwnPort(k) ==
    LET i == CHOOSE j \in OwnSetups(k) : \A h \in OwnSetups(k) : h <= j
    IN  TransportPort(HeaderValue(clients[k].packets[i], KeyTransport)).value

\* C35: a PLAY on a connection that has completed a SETUP creates a relay
\* whose target is the address of that connection's client and the port its
\* own SETUP negotiated, whatever the other connections have requested.
C35_TargetPerConnection ==
    [][\A k \in Clients :
          (Handles(k) /\ MethodOf(NewPacket(k)) = PLAY /\ OwnSetups(k) # {}) =>
              /\ server'.rtpRelay # 0
              /\ relays'[server'.rtpRelay].targetIP = ClientIP(k)
              /\ relays'[server'.rtpRelay].targetPort = OwnPort(k)]_vars

\* the read of relay r returns in this step without a new datagram
ReadsNothing(r) ==
    /\ relays[r].pc = "read"
    /\ relays'[r].pc # "read"
    /\ relays'[r].received = relays[r].received

\* C36: a read that returns without a new datagram, because the deadline
\* has passed or the listener was closed, appends nothing to the frame
\* buffer and emits no packet.
C36_NothingTwice ==
    [][\A r \in Relays :
          ReadsNothing(r) =>
              /\ relays'[r].frameBuffer = relays[r].frameBuffer
              /\ relays'[r].sent = relays[r].sent]_vars

\* call c is a command that has returned its timeout error
TimedOutCommand(c) ==
    /\ calls[c].op \in Commands
    /\ Awaits(calls[c].op)
    /\ calls[c].pc = "done"
    /\ calls[c].res = "Timeout"

\* handler n was registered by a command that has timed out, and no message
\* has been dispatched to it yet
Stale(n) ==
    /\ handlerLog[n].h.call \in Calls
    /\ TimedOutCommand(handlerLog[n].h.call)
    /\ handlerLog[n].invoked = 0

\* the receive loop invokes the handler of a command that has timed out
InvokesStale ==
    /\ rl.pc = "run"
    /\ rl.hs[rl.i].call \in Calls
    /\ TimedOutCommand(rl.hs[rl.i].call)
    /\ rl'.pc # "run" \/ rl'.i # rl.i

\* C37: after a command has returned its timeout error the handler it
\* registered is still in the table until a message of its response type is
\* dispatched to it; the stale handler then takes that message, asks to be
\* removed, and neither completes nor fails any caller.
C37_StaleHandler ==
    /\ [](\A n \in DOMAIN handlerLog : Stale(n) => InTable(n))
    /\ [][InvokesStale =>
            /\ \A d \in Calls :
                  /\ calls'[d].pc = calls[d].pc
                  /\ calls'[d].res = calls[d].res
            /\ ~crashed'
            /\ rl'.pc \in {"run", "assign"}
            /\ rl.hs[rl.i].seq \notin SeqsOf(rl'.remaining)]_vars


----------------------------------------------------------------------------
(* SpecSession: a session whose Connect may fail, with Disconnect          *)

SessionNext ==
    \/ ConnectFails
    \/ Connect
    \/ CallStarts
    \/ CallSends
    \/ Disconnect
    \/ RLStop
    \/ Tick
    \/ CallTimesOut

SpecSession == Init /\ [][SessionNext]_vars

\* the session has no connection and no receive loop
Unconnected == conn = "nil" /\ rl.pc = "off"

\* C38: a Connect whose dial fails leaves the session without a connection
\* and without a receive loop, and no operation called on such a session
\* (Login, a command, SendPacket, Disconnect) fails on the missing
\* connection: each returns an error or does nothing.
C38_UnconnectedIsSafe ==
    [][/\ ConnectFails => Unconnected'
       /\ Unconnected => ~crashed']_vars


----------------------------------------------------------------------------
(* parseFileList on a text without its final ';'                           *)

\* the number of ';' characters in a text
Semicolons(text) == Cardinality({i \in 1..Len(text) : text[i] = 59})

\* C39: parseFileList returns for every text, a text that does not end with
\* ';' included, and its result has exactly as many entries as the text has
\* ';' characters: no entry beyond them is written.
C39_ParserReturns ==
    listPc = "parsed" =>
        /\ ~listResult.panic
        /\ Len(listResult.stored) =
              Semicolons(ListingText(listInput.segs, listInput.terminated))


\* C40: a blank line received when no request line is buffered, an empty
\* packet, is dispatched without failing: nothing is written to the client,
\* nothing of the server, the relays or the camera session changes, and the
\* connection goes on to its next request.
C40_BlankLineHarmless ==
    [][\A k \in Clients :
          (Handles(k) /\ NewPacket(k) = BlankRequest) =>
              /\ ~Dead'
              /\ clients'[k].written = clients[k].written
              /\ clients'[k].pc = "idle"
              /\ server' = server
              /\ relays' = relays
              /\ tx' = tx]_vars

====
